---- MODULE Spec2Model ----
(***************************************************************************)
(* A model of the storage-and-verification core of the node:               *)
(*   - Header::compute_hash and convert_and_verify_block                   *)
(*     (crates/primitives/block/src/header.rs,                             *)
(*      crates/client/sync/src/utils/convert.rs)                           *)
(*   - DeoxysBackend::store_block (crates/client/db/src/storage_updates.rs)*)
(*   - open_rocksdb, spawn_backup_db_task, DeoxysBackend::backup,          *)
(*     DeoxysBackend::maybe_flush (crates/client/db/src/lib.rs)            *)
(* Each subsystem has its own specification over the shared variables.     *)
(***************************************************************************)
EXTENDS Integers, Sequences, FiniteSets, TLC

VARIABLES
    \* ---- block conversion and hashing (SpecHash)
    block,        \* the gateway block handed to convert_and_verify_block
    state_diff,   \* the state diff handed along with it
    chain_id,     \* the chain id handed to it
    cvResult,     \* what convert_and_verify_block returned ("none" before the call)
    hashOut,      \* what Header::compute_hash returned ("none" before the call)
    cvSteps,      \* the steps convert_and_verify_block ran, in order
    cpResult,     \* what convert_pending returned for the block
    hdr,          \* a header and the chain id it is hashed for
    hdrHash,      \* what Header::compute_hash returned for hdr
    counts,       \* the arguments of a call of concat_counts
    countsOut,    \* what concat_counts returned for counts
    par,          \* a convert_and_verify_block call with its four commitment tasks
    \* ---- store_block (SpecStore)
    blockDb,      \* block store columns
    contractDb,   \* contract history store columns
    classDb,      \* class store columns
    sb,           \* the store_block call in flight
    reader,       \* what a concurrent reader last observed
    inflight,     \* the store_block call of each thread that shares the backend
    \* ---- open and backup (SpecBackup)
    cfg,          \* open's arguments: backup_dir given, restore_from_latest_backup
    op,           \* the thread running DeoxysBackend::open
    wk,           \* the backup worker thread
    chan,         \* the mpsc channel of BackupRequests
    calls,        \* the backup() calls
    hist,         \* history of the backup engine and the restore
    \* ---- maybe_flush (SpecFlush)
    now,              \* the monotonic clock (Instant::now), in seconds
    last_flush_time,  \* DeoxysBackend::last_flush_time, the value the mutex guards
    flush_mutex,      \* the thread holding the last_flush_time mutex
    fcall,            \* each thread's maybe_flush call
    n_flush_calls,    \* how many maybe_flush calls were made
    \* ---- class conversion and fee estimation (SpecClass, SpecFee)
    db_class_updates,   \* the Vec<DbClassUpdate> handed to convert_and_verify_class
    class_block_n,      \* its block_n argument
    classResult,        \* what convert_and_verify_class returned
    executions_result,  \* the ExecutionResult handed to execution_result_to_fee_estimate
    block_gas_prices,   \* block_context.block_info().gas_prices
    fee_estimate        \* the FeeEstimate it returned

hashVars ==
    <<block, state_diff, chain_id, cvResult, hashOut, cvSteps, cpResult,
      hdr, hdrHash, counts, countsOut, par>>
storeVars == <<blockDb, contractDb, classDb, sb, reader, inflight>>
backupVars == <<cfg, op, wk, chan, calls, hist>>
flushVars == <<now, last_flush_time, flush_mutex, fcall, n_flush_calls>>
pureVars ==
    <<db_class_updates, class_block_n, classResult, executions_result,
      block_gas_prices, fee_estimate>>
vars == <<hashVars, storeVars, backupVars, flushVars, pureVars>>

\* Option<T>
None == [none |-> TRUE]
Some(x) == [some |-> x]

(***************************************************************************)
(* Field elements.  A Felt built from an integer and a Felt built from a   *)
(* byte string are kept apart by their field name; the hash functions are  *)
(* uninterpreted: a hash is the algorithm with the sequence it hashed.     *)
(***************************************************************************)
FeltU64(n) == [u64 |-> n]
FeltBytes(s) == [bytes |-> s]
FeltZERO == FeltU64(0)

MAIN_CHAIN_ID == FeltBytes("SN_MAIN")
TEST_CHAIN_ID == FeltBytes("SN_SEPOLIA")
INTEGRATION_CHAIN_ID == FeltBytes("SN_INTEGRATION_SEPOLIA")
V0_7_BLOCK_NUMBER == 833

PedersenHashArray(elems) == [alg |-> "Pedersen", elems |-> elems]
PoseidonHashArray(elems) == [alg |-> "Poseidon", elems |-> elems]

(***************************************************************************)
(* StarknetVersion: four bytes compared lexicographically.                 *)
(***************************************************************************)
STARKNET_VERSION_0_13_2 == <<0, 13, 2, 0>>
StarknetVersionDefault == <<0, 0, 0, 0>>

VersionLt(a, b) ==
    \E i \in 1..4 : a[i] < b[i] /\ \A j \in 1..(i - 1) : a[j] = b[j]

\* to_string, as bytes of the decimal form
VersionToString(v) ==
    CASE v = <<0, 0, 0, 0>> -> "0.0.0"
      [] v = <<0, 11, 1, 0>> -> "0.11.1"
      [] v = <<0, 13, 1, 1>> -> "0.13.1.1"
      [] v = <<0, 13, 2, 0>> -> "0.13.2"
      [] v = <<0, 13, 2, 1>> -> "0.13.2.1"
      [] OTHER -> "?"

\* str::parse::<StarknetVersion>
ParseVersion(s) ==
    CASE s = "0.11.1" -> <<0, 11, 1, 0>>
      [] s = "0.13.1.1" -> <<0, 13, 1, 1>>
      [] s = "0.13.2" -> <<0, 13, 2, 0>>
      [] s = "0.13.2.1" -> <<0, 13, 2, 1>>
      [] OTHER -> <<>>

IsVersionString(s) == ParseVersion(s) # <<>>

\* u64::to_be_bytes
RECURSIVE BeBytes(_, _)
BeBytes(n, k) ==
    IF k = 0 THEN <<>> ELSE Append(BeBytes(n \div 256, k - 1), n % 256)

\* A u64 that is given to concat_counts is kept as four 16-bit limbs, most
\* significant first, so that the whole range of u64 can be written down;
\* U64 is the limbs of a small count.
U64(n) == <<0, 0, n \div 65536, n % 65536>>

to_be_bytes(u) ==
    BeBytes(u[1], 2) \o BeBytes(u[2], 2) \o BeBytes(u[3], 2) \o BeBytes(u[4], 2)

\* k times the Stark field prime 2^251 + 17 * 2^192 + 1, as 32 big-endian
\* bytes, for k <= 16
PrimeMultiple(k) ==
    <<8 * k, 0, 0, 0, 0, 0, (17 * k) \div 256, (17 * k) % 256>>
    \o [i \in 1..23 |-> 0] \o <<k>>

FELT_PRIME_BYTES == PrimeMultiple(1)

\* a >= b for big-endian byte strings of equal length, from byte i on
RECURSIVE GeqBytes(_, _, _)
GeqBytes(a, b, i) ==
    IF i > Len(a) THEN TRUE
    ELSE IF a[i] # b[i] THEN a[i] > b[i]
    ELSE GeqBytes(a, b, i + 1)

\* a - b for a >= b, byte i and the bytes before it, with the borrow of the
\* bytes after it
RECURSIVE SubBytes(_, _, _, _)
SubBytes(a, b, i, borrow) ==
    IF i = 0 THEN <<>>
    ELSE LET d == a[i] - b[i] - borrow
         IN  Append(SubBytes(a, b, i - 1, IF d < 0 THEN 1 ELSE 0),
                    IF d < 0 THEN d + 256 ELSE d)

\* the residue modulo the prime of a 32-byte integer below 2 * k times the
\* prime, k a power of two: k times the prime is taken off when it fits, then
\* k / 2 times the prime, down to the prime itself
RECURSIVE ReduceModPrime(_, _)
ReduceModPrime(bytes, k) ==
    IF k = 0 THEN bytes
    ELSE IF GeqBytes(bytes, PrimeMultiple(k), 1)
    THEN ReduceModPrime(SubBytes(bytes, PrimeMultiple(k), Len(bytes), 0), k \div 2)
    ELSE ReduceModPrime(bytes, k \div 2)

\* Felt::from_bytes_be_slice on 32 bytes: the integer, reduced modulo the
\* prime (2^256 is below 32 times the prime)
from_bytes_be_slice(bytes) == [be_bytes |-> ReduceModPrime(bytes, 16)]

\* the flag byte is the last byte of the element
concat_counts_FlagLast(transaction_count, event_count, state_diff_length, l1_da_mode) ==
    LET l1_data_availability_byte == IF l1_da_mode = "Blob" THEN 128 ELSE 0
    IN  from_bytes_be_slice(
            to_be_bytes(transaction_count) \o to_be_bytes(event_count)
            \o to_be_bytes(state_diff_length)
            \o <<0, 0, 0, 0, 0, 0, 0, l1_data_availability_byte>>)

concat_counts(transaction_count, event_count, state_diff_length, l1_da_mode) ==
    LET l1_data_availability_byte == IF l1_da_mode = "Blob" THEN 128 ELSE 0
    IN  from_bytes_be_slice(
            to_be_bytes(transaction_count) \o to_be_bytes(event_count)
            \o to_be_bytes(state_diff_length)
            \o <<l1_data_availability_byte, 0, 0, 0, 0, 0, 0, 0>>)

(***************************************************************************)
(* Header::compute_hash                                                     *)
(***************************************************************************)
\* the chain id is left out of the hashed elements
compute_hash_inner_pre_v0_7_NoChainId(h, chain) ==
    PedersenHashArray(<<
        FeltU64(h.block_number),
        h.global_state_root,
        FeltZERO,
        FeltZERO,
        FeltU64(h.transaction_count),
        h.transaction_commitment,
        FeltZERO,
        FeltZERO,
        FeltZERO,
        FeltZERO,
        FeltZERO,
        h.parent_block_hash >>)

\* the sequencer address is hashed in place of the first reserved zero
compute_hash_inner_pre_v0_7_WithSequencer(h, chain) ==
    PedersenHashArray(<<
        FeltU64(h.block_number),
        h.global_state_root,
        h.sequencer_address,
        FeltZERO,
        FeltU64(h.transaction_count),
        h.transaction_commitment,
        FeltZERO,
        FeltZERO,
        FeltZERO,
        FeltZERO,
        chain,
        h.parent_block_hash >>)

compute_hash_inner_pre_v0_7(h, chain) ==
    PedersenHashArray(<<
        FeltU64(h.block_number),
        h.global_state_root,
        FeltZERO,
        FeltZERO,
        FeltU64(h.transaction_count),
        h.transaction_commitment,
        FeltZERO,
        FeltZERO,
        FeltZERO,
        FeltZERO,
        chain,
        h.parent_block_hash >>)

UsesPreV07_NoChainCheck(h, chain) ==
    h.block_number < V0_7_BLOCK_NUMBER

UsesPreV07(h, chain) ==
    h.block_number < V0_7_BLOCK_NUMBER /\ chain = MAIN_CHAIN_ID

compute_hash(h, chain) ==
    IF UsesPreV07(h, chain)
    THEN compute_hash_inner_pre_v0_7(h, chain)
    ELSE IF VersionLt(h.protocol_version, STARKNET_VERSION_0_13_2)
    THEN PedersenHashArray(<<
        FeltU64(h.block_number),
        h.global_state_root,
        h.sequencer_address,
        FeltU64(h.block_timestamp),
        FeltU64(h.transaction_count),
        h.transaction_commitment,
        FeltU64(h.event_count),
        h.event_commitment,
        FeltZERO,
        FeltZERO,
        h.parent_block_hash >>)
    ELSE PoseidonHashArray(<<
        FeltBytes("STARKNET_BLOCK_HASH0"),
        FeltU64(h.block_number),
        h.global_state_root,
        h.sequencer_address,
        FeltU64(h.block_timestamp),
        concat_counts(U64(h.transaction_count), U64(h.event_count),
                      U64(h.state_diff_length), h.l1_da_mode),
        h.state_diff_commitment,
        h.transaction_commitment,
        h.event_commitment,
        h.receipt_commitment,
        FeltU64(h.l1_gas_price.eth_l1_gas_price),
        FeltU64(h.l1_gas_price.strk_l1_gas_price),
        FeltU64(h.l1_gas_price.eth_l1_data_gas_price),
        FeltU64(h.l1_gas_price.strk_l1_data_gas_price),
        FeltBytes(VersionToString(h.protocol_version)),
        FeltZERO,
        h.parent_block_hash >>)

(***************************************************************************)
(* convert_and_verify_block and what it calls.  The commitment functions   *)
(* are uninterpreted functions of their arguments.                         *)
(***************************************************************************)
Err(kind) == [tag |-> "Err", err |-> kind]
IsErr(r) == r.tag = "Err"

\* TransactionReceipt::from_provider for each (receipt, tx) pair, then tx.try_into()
convert_inner(txs, receipts) ==
    LET n == IF Len(receipts) < Len(txs) THEN Len(receipts) ELSE Len(txs)
        transactions_receipts ==
            [i \in 1..n |->
                [transaction_hash |-> receipts[i].transaction_hash,
                 events |-> receipts[i].events,
                 of_transaction |-> txs[i].hash]]
    IN  IF \E i \in 1..Len(txs) : ~txs[i].convertible
        THEN Err("BlockFormat: transaction conversion")
        ELSE [tag |-> "Ok",
              transactions |-> [i \in 1..Len(txs) |-> txs[i].hash],
              receipts |-> transactions_receipts]

protocol_version(version) ==
    IF version = None
    THEN [tag |-> "Ok", v |-> StarknetVersionDefault]
    ELSE IF ~IsVersionString(version.some)
         THEN Err("InvalidStarknetVersion")
         ELSE [tag |-> "Ok", v |-> ParseVersion(version.some)]

\* felt_to_u128 fails on a felt that does not fit 128 bits
FitsU128(felt) == "u64" \in DOMAIN felt

resource_price(l1_gas_price, l1_data_gas_price) ==
    IF ~FitsU128(l1_gas_price.price_in_wei) THEN Err("GasPriceOutOfBounds")
    ELSE IF ~FitsU128(l1_gas_price.price_in_fri) THEN Err("GasPriceOutOfBounds")
    ELSE IF ~FitsU128(l1_data_gas_price.price_in_wei) THEN Err("GasPriceOutOfBounds")
    ELSE IF ~FitsU128(l1_data_gas_price.price_in_fri) THEN Err("GasPriceOutOfBounds")
    ELSE [tag |-> "Ok",
          v |-> [eth_l1_gas_price |-> l1_gas_price.price_in_wei.u64,
                 strk_l1_gas_price |-> l1_gas_price.price_in_fri.u64,
                 eth_l1_data_gas_price |-> l1_data_gas_price.price_in_wei.u64,
                 strk_l1_data_gas_price |-> l1_data_gas_price.price_in_fri.u64]]

RECURSIVE FlatEvents(_, _)
FlatEvents(receipts, i) ==
    IF i > Len(receipts) THEN <<>>
    ELSE [j \in 1..Len(receipts[i].events) |->
              <<receipts[i].transaction_hash, receipts[i].events[j]>>]
         \o FlatEvents(receipts, i + 1)

\* only the first event of each receipt is kept
events_with_tx_hash_FirstEventOnly(receipts) ==
    LET withEvents == SelectSeq(receipts, LAMBDA r : Len(r.events) > 0)
    IN  [i \in 1..Len(withEvents) |->
            <<withEvents[i].transaction_hash, withEvents[i].events[1]>>]

events_with_tx_hash(receipts) == FlatEvents(receipts, 1)

memory_transaction_commitment(transactions, chain, version, block_number) ==
    [commitment |-> [tx_commitment |-> <<transactions, chain, version, block_number>>],
     txs_hashes |-> transactions]
memory_event_commitment(events, version) == [event_commitment |-> <<events, version>>]
memory_receipt_commitment(receipts) == [receipt_commitment |-> receipts]
state_diff_compute_hash(sd) == [state_diff_commitment |-> sd]

RECURSIVE StorageEntriesCount(_, _)
StorageEntriesCount(storage_diffs, i) ==
    IF i > Len(storage_diffs) THEN 0
    ELSE Len(storage_diffs[i].storage_entries) + StorageEntriesCount(storage_diffs, i + 1)

\* StateDiff::len
state_diff_len(sd) ==
    Len(sd.deployed_contracts) + Len(sd.replaced_classes) + Len(sd.nonces)
    + StorageEntriesCount(sd.storage_diffs, 1)

\* Header::new over the decoded block
HeaderOf(b, sd, chain, inner, starknet_version, gas_prices) ==
    LET ev == events_with_tx_hash(inner.receipts)
    IN  [parent_block_hash |-> b.parent_block_hash,
         block_number |-> b.block_number.some,
         global_state_root |-> b.state_root.some,
         sequencer_address |->
             IF b.sequencer_address = None THEN FeltZERO ELSE b.sequencer_address.some,
         block_timestamp |-> b.timestamp,
         transaction_count |-> Len(inner.transactions),
         transaction_commitment |->
             memory_transaction_commitment(
                 inner.transactions, chain, starknet_version, b.block_number.some).commitment,
         event_count |-> Len(ev),
         event_commitment |-> memory_event_commitment(ev, starknet_version),
         state_diff_length |-> state_diff_len(sd),
         state_diff_commitment |-> state_diff_compute_hash(sd),
         receipt_commitment |-> memory_receipt_commitment(inner.receipts),
         protocol_version |-> starknet_version,
         l1_gas_price |-> gas_prices,
         l1_da_mode |-> b.l1_da_mode]

MISMATCH_ALLOWED_FIRST == 1466
MISMATCH_ALLOWED_LAST == 2242

MismatchAllowed_NoChainCheck(block_number, chain) ==
    block_number >= MISMATCH_ALLOWED_FIRST /\ block_number <= MISMATCH_ALLOWED_LAST

\* (1466..=2242).contains(&block_number) && chain_id == MAIN_CHAIN_ID
MismatchAllowed(block_number, chain) ==
    /\ block_number >= MISMATCH_ALLOWED_FIRST /\ block_number <= MISMATCH_ALLOWED_LAST
    /\ chain = MAIN_CHAIN_ID

\* the computed hash is stored in the block info instead of the advertised one
convert_and_verify_block_StoresComputed(b, sd, chain) ==
    LET inner == convert_inner(b.transactions, b.transaction_receipts)
        ver == protocol_version(b.starknet_version)
        gas == resource_price(b.l1_gas_price, b.l1_data_gas_price)
    IN  IF IsErr(inner) THEN inner
        ELSE IF b.block_hash = None THEN Err("BlockFormat: No block hash provided")
        ELSE IF b.block_number = None THEN Err("BlockFormat: No block number provided")
        ELSE IF b.state_root = None THEN Err("BlockFormat: No state root provided")
        ELSE IF IsErr(ver) THEN ver
        ELSE IF IsErr(gas) THEN gas
        ELSE LET block_hash == b.block_hash.some
                 block_number == b.block_number.some
                 header == HeaderOf(b, sd, chain, inner, ver.v, gas.v)
                 computed_block_hash == compute_hash(header, chain)
             IN  IF computed_block_hash # block_hash
                    /\ ~MismatchAllowed(block_number, chain)
                 THEN [tag |-> "Err", err |-> "MismatchedBlockHash",
                       block_number |-> block_number]
                 ELSE [tag |-> "Ok",
                       header |-> header,
                       tx_hashes |->
                           memory_transaction_commitment(
                               inner.transactions, chain, ver.v, block_number).txs_hashes,
                       block_hash |-> computed_block_hash,
                       inner |-> [transactions |-> inner.transactions,
                                  receipts |-> inner.receipts]]

\* a missing block number is replaced by 0 (unwrap_or_default)
convert_and_verify_block_DefaultsNumber(b, sd, chain) ==
    LET inner == convert_inner(b.transactions, b.transaction_receipts)
        ver == protocol_version(b.starknet_version)
        gas == resource_price(b.l1_gas_price, b.l1_data_gas_price)
        b0 == [b EXCEPT !.block_number = IF @ = None THEN Some(0) ELSE @]
    IN  IF IsErr(inner) THEN inner
        ELSE IF b.block_hash = None THEN Err("BlockFormat: No block hash provided")
        ELSE IF b.state_root = None THEN Err("BlockFormat: No state root provided")
        ELSE IF IsErr(ver) THEN ver
        ELSE IF IsErr(gas) THEN gas
        ELSE LET block_hash == b.block_hash.some
                 block_number == b0.block_number.some
                 header == HeaderOf(b0, sd, chain, inner, ver.v, gas.v)
                 computed_block_hash == compute_hash(header, chain)
             IN  IF computed_block_hash # block_hash
                    /\ ~MismatchAllowed(block_number, chain)
                 THEN [tag |-> "Err", err |-> "MismatchedBlockHash",
                       block_number |-> block_number]
                 ELSE [tag |-> "Ok",
                       header |-> header,
                       tx_hashes |->
                           memory_transaction_commitment(
                               inner.transactions, chain, ver.v, block_number).txs_hashes,
                       block_hash |-> block_hash,
                       inner |-> [transactions |-> inner.transactions,
                                  receipts |-> inner.receipts]]

convert_and_verify_block(b, sd, chain) ==
    LET inner == convert_inner(b.transactions, b.transaction_receipts)
        ver == protocol_version(b.starknet_version)
        gas == resource_price(b.l1_gas_price, b.l1_data_gas_price)
    IN  IF IsErr(inner) THEN inner
        ELSE IF b.block_hash = None THEN Err("BlockFormat: No block hash provided")
        ELSE IF b.block_number = None THEN Err("BlockFormat: No block number provided")
        ELSE IF b.state_root = None THEN Err("BlockFormat: No state root provided")
        ELSE IF IsErr(ver) THEN ver
        ELSE IF IsErr(gas) THEN gas
        ELSE LET block_hash == b.block_hash.some
                 block_number == b.block_number.some
                 header == HeaderOf(b, sd, chain, inner, ver.v, gas.v)
                 computed_block_hash == compute_hash(header, chain)
             IN  IF computed_block_hash # block_hash
                    /\ ~MismatchAllowed(block_number, chain)
                 THEN [tag |-> "Err", err |-> "MismatchedBlockHash",
                       block_number |-> block_number]
                 ELSE [tag |-> "Ok",
                       header |-> header,
                       tx_hashes |->
                           memory_transaction_commitment(
                               inner.transactions, chain, ver.v, block_number).txs_hashes,
                       block_hash |-> block_hash,
                       inner |-> [transactions |-> inner.transactions,
                                  receipts |-> inner.receipts]]

\* the steps of convert_and_verify_block, in the order the function runs them,
\* up to the one that returns
convert_steps(b, sd, chain) ==
    LET inner == convert_inner(b.transactions, b.transaction_receipts)
        ver == protocol_version(b.starknet_version)
        gas == resource_price(b.l1_gas_price, b.l1_data_gas_price)
        decoded == <<"convert_inner", "events_with_tx_hash">>
        committed == decoded \o <<"protocol_version", "commitments", "resource_price">>
    IN  IF IsErr(inner) THEN <<"convert_inner">>
        ELSE IF b.block_hash = None \/ b.block_number = None \/ b.state_root = None
             THEN decoded
        ELSE IF IsErr(ver) THEN decoded \o <<"protocol_version">>
        ELSE IF IsErr(gas) THEN committed
        ELSE committed \o <<"Header::new", "compute_hash">>

(***************************************************************************)
(* convert_pending: the body and a PendingHeader, no check of any hash.    *)
(***************************************************************************)
\* PendingHeader { .. } over the decoded block
PendingHeaderOf(b, starknet_version, gas_prices) ==
    [parent_block_hash |-> b.parent_block_hash,
     block_timestamp |-> b.timestamp,
     sequencer_address |->
         IF b.sequencer_address = None THEN FeltZERO ELSE b.sequencer_address.some,
     protocol_version |-> starknet_version,
     l1_gas_price |-> gas_prices,
     l1_da_mode |-> b.l1_da_mode]

\* find_tx_hash_block on the pending block: the index of the hash in the
\* tx-hash list of the pending block info, None when it is not there
find_tx_hash_pending(pending, tx_hash) ==
    IF \E i \in 1..Len(pending.tx_hashes) : pending.tx_hashes[i] = tx_hash
    THEN Some(CHOOSE i \in 1..Len(pending.tx_hashes) :
                  /\ pending.tx_hashes[i] = tx_hash
                  /\ \A j \in 1..(i - 1) : pending.tx_hashes[j] # tx_hash)
    ELSE None

\* the payload must carry a block number, as for a confirmed block
convert_pending_RequiresNumber(b, sd, chain) ==
    LET inner == convert_inner(b.transactions, b.transaction_receipts)
        ver == protocol_version(b.starknet_version)
        gas == resource_price(b.l1_gas_price, b.l1_data_gas_price)
    IN  IF IsErr(inner) THEN inner
        ELSE IF b.block_number = None THEN Err("BlockFormat: No block number provided")
        ELSE IF IsErr(ver) THEN ver
        ELSE IF IsErr(gas) THEN gas
        ELSE [tag |-> "Ok",
              header |-> PendingHeaderOf(b, ver.v, gas.v),
              tx_hashes |-> <<>>,
              inner |-> [transactions |-> inner.transactions,
                         receipts |-> inner.receipts],
              state_diff |-> sd]

\* the transaction hashes are filled in from the body
convert_pending_WithTxHashes(b, sd, chain) ==
    LET inner == convert_inner(b.transactions, b.transaction_receipts)
        ver == protocol_version(b.starknet_version)
        gas == resource_price(b.l1_gas_price, b.l1_data_gas_price)
    IN  IF IsErr(inner) THEN inner
        ELSE IF IsErr(ver) THEN ver
        ELSE IF IsErr(gas) THEN gas
        ELSE [tag |-> "Ok",
              header |-> PendingHeaderOf(b, ver.v, gas.v),
              tx_hashes |-> inner.transactions,
              inner |-> [transactions |-> inner.transactions,
                         receipts |-> inner.receipts],
              state_diff |-> sd]

convert_pending(b, sd, chain) ==
    LET inner == convert_inner(b.transactions, b.transaction_receipts)
        ver == protocol_version(b.starknet_version)
        gas == resource_price(b.l1_gas_price, b.l1_data_gas_price)
    IN  IF IsErr(inner) THEN inner
        ELSE IF IsErr(ver) THEN ver
        ELSE IF IsErr(gas) THEN gas
        ELSE [tag |-> "Ok",
              header |-> PendingHeaderOf(b, ver.v, gas.v),
              tx_hashes |-> <<>>,
              inner |-> [transactions |-> inner.transactions,
                         receipts |-> inner.receipts],
              state_diff |-> sd]

(***************************************************************************)
(* Inputs of the conversion: gateway blocks drawn from small sets that     *)
(* hold the boundary block numbers of the hashing regimes and of the       *)
(* mismatch exception.                                                     *)
(***************************************************************************)
MaxTxs == 1

ChainIds == {MAIN_CHAIN_ID, TEST_CHAIN_ID, INTEGRATION_CHAIN_ID}

BoundaryBlockNumbers ==
    {0, V0_7_BLOCK_NUMBER - 1, V0_7_BLOCK_NUMBER,
     MISMATCH_ALLOWED_FIRST - 1, MISMATCH_ALLOWED_FIRST,
     MISMATCH_ALLOWED_LAST, MISMATCH_ALLOWED_LAST + 1}

SeqsUpTo(S, n) == UNION {[1..k -> S] : k \in 0..n}

GatewayTxs ==
    {[hash |-> FeltU64(11), convertible |-> TRUE],
     [hash |-> FeltU64(12), convertible |-> FALSE]}

GatewayReceipts ==
    {[transaction_hash |-> FeltU64(11), events |-> <<>>],
     [transaction_hash |-> FeltU64(11), events |-> <<"ev1", "ev2">>]}

EmptyStateDiff ==
    [deployed_contracts |-> <<>>, replaced_classes |-> <<>>,
     nonces |-> <<>>, storage_diffs |-> <<>>]

HashStateDiffs ==
    {EmptyStateDiff,
     [EmptyStateDiff EXCEPT
        !.storage_diffs =
            <<[address |-> 10,
               storage_entries |-> <<[key |-> 1, value |-> 66]>>]>>]}

TooBigForU128 == FeltBytes("2^128")

\* the block without its advertised hash
GatewayBlocksNoHash ==
    [block_number : {None} \cup {Some(n) : n \in BoundaryBlockNumbers},
     state_root : {None, Some(FeltU64(3))},
     parent_block_hash : {FeltU64(1)},
     sequencer_address : {None, Some(FeltU64(4))},
     timestamp : {5},
     transactions : SeqsUpTo(GatewayTxs, MaxTxs),
     transaction_receipts : SeqsUpTo(GatewayReceipts, MaxTxs),
     starknet_version : {None, Some("0.13.1.1"), Some("0.13.2"), Some("invalid_version")},
     l1_gas_price :
        {[price_in_wei |-> FeltU64(14), price_in_fri |-> FeltU64(15)],
         [price_in_wei |-> TooBigForU128, price_in_fri |-> FeltU64(15)]},
     l1_data_gas_price : {[price_in_wei |-> FeltU64(16), price_in_fri |-> FeltU64(17)]},
     l1_da_mode : {"Blob"}]

WithHash(b, h) ==
    [block_hash |-> h,
     block_number |-> b.block_number,
     state_root |-> b.state_root,
     parent_block_hash |-> b.parent_block_hash,
     sequencer_address |-> b.sequencer_address,
     timestamp |-> b.timestamp,
     transactions |-> b.transactions,
     transaction_receipts |-> b.transaction_receipts,
     starknet_version |-> b.starknet_version,
     l1_gas_price |-> b.l1_gas_price,
     l1_data_gas_price |-> b.l1_data_gas_price,
     l1_da_mode |-> b.l1_da_mode]

\* every conversion of the payload succeeds
DecodingSucceeds(b) ==
    /\ ~IsErr(convert_inner(b.transactions, b.transaction_receipts))
    /\ ~IsErr(protocol_version(b.starknet_version))
    /\ ~IsErr(resource_price(b.l1_gas_price, b.l1_data_gas_price))

HeaderFieldsPresent(b) == b.block_number # None /\ b.state_root # None

\* the header convert_and_verify_block assembles for a decodable block
AssembledHeader(b, sd, chain) ==
    HeaderOf(b, sd, chain,
             convert_inner(b.transactions, b.transaction_receipts),
             protocol_version(b.starknet_version).v,
             resource_price(b.l1_gas_price, b.l1_data_gas_price).v)

\* a felt that is the hash of no header
WrongHash == FeltBytes("0xdead")

\* the hashes a gateway may advertise: none, a wrong one, the right one
AdvertisedHashes(b, sd, chain) ==
    {None, Some(WrongHash)}
    \cup (IF DecodingSucceeds(b) /\ HeaderFieldsPresent(b)
          THEN {Some(compute_hash(AssembledHeader(b, sd, chain), chain))}
          ELSE {})

NoResult == [tag |-> "none"]
NoHash == [alg |-> "none", elems |-> <<>>]

(***************************************************************************)
(* Inputs of Header::compute_hash and of concat_counts taken on their own: *)
(* the headers of the tests of header.rs with the fields that select the   *)
(* regime varied, and counts at the ends of u64 and around the top limb of *)
(* the field prime.                                                        *)
(***************************************************************************)
HeaderInputs ==
    [parent_block_hash : {FeltU64(1)},
     block_number : {2, V0_7_BLOCK_NUMBER - 1, V0_7_BLOCK_NUMBER},
     global_state_root : {FeltU64(3)},
     sequencer_address : {FeltU64(4)},
     block_timestamp : {5},
     transaction_count : {6},
     transaction_commitment : {FeltU64(7)},
     event_count : {8},
     event_commitment : {FeltU64(9)},
     state_diff_length : {10},
     state_diff_commitment : {FeltU64(11)},
     receipt_commitment : {FeltU64(12)},
     protocol_version : {StarknetVersionDefault, ParseVersion("0.11.1"),
                         ParseVersion("0.13.2")},
     l1_gas_price :
        {[eth_l1_gas_price |-> 14, strk_l1_gas_price |-> 15,
          eth_l1_data_gas_price |-> 16, strk_l1_data_gas_price |-> 17],
         [eth_l1_gas_price |-> 0, strk_l1_gas_price |-> 0,
          eth_l1_data_gas_price |-> 0, strk_l1_data_gas_price |-> 0]},
     l1_da_mode : {"Calldata", "Blob"}]

\* 0, the counts of the test, u64::MAX, and for the transaction count
\* 2^59 - 1, 2^59 + 17 (the top 64 bits of the prime) and 2^59 + 18
CountInputs ==
    [transaction_count : {U64(0), U64(4), <<2047, 65535, 65535, 65535>>,
                          <<2048, 0, 0, 17>>, <<2048, 0, 0, 18>>,
                          <<65535, 65535, 65535, 65535>>},
     event_count : {U64(0), U64(3), <<65535, 65535, 65535, 65535>>},
     state_diff_length : {U64(0), U64(2), <<65535, 65535, 65535, 65535>>},
     l1_da_mode : {"Calldata", "Blob"}]

HeaderIdle ==
    /\ hdr = [header |-> None, chain_id |-> MAIN_CHAIN_ID]
    /\ hdrHash = NoHash
    /\ counts = None
    /\ countsOut = None

\* every header with the counts of test_concat_counts, and every counts with
\* the header of test_header_hash_v0_13_2
HeaderInit ==
    /\ \E h \in HeaderInputs, c \in {FeltBytes("CHAIN_ID"), MAIN_CHAIN_ID},
          n \in CountInputs :
          /\ hdr = [header |-> h, chain_id |-> c]
          /\ counts = n
          /\ \/ n = [transaction_count |-> U64(4), event_count |-> U64(3),
                     state_diff_length |-> U64(2), l1_da_mode |-> "Blob"]
             \/ /\ c = FeltBytes("CHAIN_ID")
                /\ h.block_number = 2
                /\ h.protocol_version = STARKNET_VERSION_0_13_2
                /\ h.l1_gas_price.eth_l1_gas_price = 14
                /\ h.l1_da_mode = "Blob"
    /\ hdrHash = NoHash
    /\ countsOut = None

\* no call of convert_and_verify_block has started its tasks
NoTasks ==
    [pc |-> "idle", tx |-> None, ev |-> None, rc |-> None, sd |-> None,
     result |-> NoResult]

HashIdle ==
    /\ block = None
    /\ state_diff = EmptyStateDiff
    /\ chain_id = MAIN_CHAIN_ID
    /\ cvResult = NoResult
    /\ hashOut = NoHash
    /\ cvSteps = <<>>
    /\ cpResult = NoResult
    /\ par = NoTasks
    /\ HeaderIdle

HashInit ==
    /\ chain_id \in ChainIds
    /\ state_diff \in HashStateDiffs
    /\ \E b \in GatewayBlocksNoHash :
          \E h \in AdvertisedHashes(b, state_diff, chain_id) :
              block = WithHash(b, h)
    /\ cvResult = NoResult
    /\ hashOut = NoHash
    /\ cvSteps = <<>>
    /\ cpResult = NoResult
    /\ par = NoTasks
    /\ HeaderIdle

\* the sync task hands the block to convert_and_verify_block
ConvertAndVerifyBlock ==
    /\ cvResult = NoResult
    /\ cvResult' = convert_and_verify_block(block, state_diff, chain_id)
    /\ cvSteps' = convert_steps(block, state_diff, chain_id)
    /\ UNCHANGED <<block, state_diff, chain_id, hashOut, cpResult>>
    /\ UNCHANGED <<hdr, hdrHash, counts, countsOut, par>>

\* Header::compute_hash on the header assembled from the block
ComputeHash ==
    /\ hashOut = NoHash
    /\ DecodingSucceeds(block)
    /\ HeaderFieldsPresent(block)
    /\ hashOut' = compute_hash(AssembledHeader(block, state_diff, chain_id), chain_id)
    /\ UNCHANGED <<block, state_diff, chain_id, cvResult, cvSteps, cpResult>>
    /\ UNCHANGED <<hdr, hdrHash, counts, countsOut, par>>

\* the sync task hands a pending block to convert_pending
ConvertPending ==
    /\ cpResult = NoResult
    /\ cpResult' = convert_pending(block, state_diff, chain_id)
    /\ UNCHANGED <<block, state_diff, chain_id, cvResult, hashOut, cvSteps>>
    /\ UNCHANGED <<hdr, hdrHash, counts, countsOut, par>>

\* header.compute_hash(chain_id)
HeaderComputeHash ==
    /\ hdrHash = NoHash
    /\ hdrHash' = compute_hash(hdr.header, hdr.chain_id)
    /\ UNCHANGED <<block, state_diff, chain_id, cvResult, hashOut, cvSteps, cpResult>>
    /\ UNCHANGED <<hdr, counts, countsOut, par>>

\* concat_counts(transaction_count, event_count, state_diff_length, l1_da_mode)
ConcatCounts ==
    /\ countsOut = None
    /\ countsOut' = Some(concat_counts(counts.transaction_count, counts.event_count,
                                       counts.state_diff_length, counts.l1_da_mode))
    /\ UNCHANGED <<block, state_diff, chain_id, cvResult, hashOut, cvSteps, cpResult>>
    /\ UNCHANGED <<hdr, hdrHash, counts, par>>

(***************************************************************************)
(* convert_and_verify_block with its four commitments as tasks of the      *)
(* pool: rayon::join of two closures, each a rayon::join of two tasks.     *)
(***************************************************************************)
CommitmentTasks == {"tx", "ev", "rc", "sd"}

\* up to the joins: convert_inner, the three required fields, protocol_version
CvbStart ==
    /\ par.pc = "idle"
    /\ LET inner == convert_inner(block.transactions, block.transaction_receipts)
           ver == protocol_version(block.starknet_version)
       IN  par' =
               IF IsErr(inner) THEN [par EXCEPT !.pc = "done", !.result = inner]
               ELSE IF block.block_hash = None
               THEN [par EXCEPT !.pc = "done",
                                !.result = Err("BlockFormat: No block hash provided")]
               ELSE IF block.block_number = None
               THEN [par EXCEPT !.pc = "done",
                                !.result = Err("BlockFormat: No block number provided")]
               ELSE IF block.state_root = None
               THEN [par EXCEPT !.pc = "done",
                                !.result = Err("BlockFormat: No state root provided")]
               ELSE IF IsErr(ver) THEN [par EXCEPT !.pc = "done", !.result = ver]
               ELSE [par EXCEPT !.pc = "forked"]
    /\ UNCHANGED <<block, state_diff, chain_id, cvResult, hashOut, cvSteps, cpResult>>
    /\ UNCHANGED <<hdr, hdrHash, counts, countsOut>>

\* a worker of the pool runs one of the four closures
CvbTask(t) ==
    /\ par.pc = "forked"
    /\ par[t] = None
    /\ LET inner == convert_inner(block.transactions, block.transaction_receipts)
           ver == protocol_version(block.starknet_version).v
       IN  par' =
               [par EXCEPT ![t] =
                   Some(CASE t = "tx" ->
                             memory_transaction_commitment(
                                 inner.transactions, chain_id, ver,
                                 block.block_number.some)
                          [] t = "ev" ->
                             memory_event_commitment(
                                 events_with_tx_hash(inner.receipts), ver)
                          [] t = "rc" -> memory_receipt_commitment(inner.receipts)
                          [] t = "sd" -> state_diff_compute_hash(state_diff))]
    /\ UNCHANGED <<block, state_diff, chain_id, cvResult, hashOut, cvSteps, cpResult>>
    /\ UNCHANGED <<hdr, hdrHash, counts, countsOut>>

\* what the joins hand to Header::new: a commitment, or nothing yet
TaskValue(t) ==
    IF par[t] = None THEN FeltZERO
    ELSE IF t = "tx" THEN par.tx.some.commitment
    ELSE par[t].some

\* Header::new, compute_hash and the comparison, from the results of the tasks
CvbAssemble ==
    LET inner == convert_inner(block.transactions, block.transaction_receipts)
        ver == protocol_version(block.starknet_version).v
        gas == resource_price(block.l1_gas_price, block.l1_data_gas_price)
        header ==
            [HeaderOf(block, state_diff, chain_id, inner, ver, gas.v) EXCEPT
                !.transaction_commitment = TaskValue("tx"),
                !.event_commitment = TaskValue("ev"),
                !.receipt_commitment = TaskValue("rc"),
                !.state_diff_commitment = TaskValue("sd")]
        block_number == block.block_number.some
    IN  par' =
            [par EXCEPT
                !.pc = "done",
                !.result =
                    IF IsErr(gas) THEN gas
                    ELSE IF compute_hash(header, chain_id) # block.block_hash.some
                            /\ ~MismatchAllowed(block_number, chain_id)
                    THEN [tag |-> "Err", err |-> "MismatchedBlockHash",
                          block_number |-> block_number]
                    ELSE [tag |-> "Ok",
                          header |-> header,
                          tx_hashes |-> IF par.tx = None THEN <<>>
                                        ELSE par.tx.some.txs_hashes,
                          block_hash |-> block.block_hash.some,
                          inner |-> [transactions |-> inner.transactions,
                                     receipts |-> inner.receipts]]]

\* a variant that assembles the header as soon as the first fork has returned
CvbJoin_FirstForkOnly ==
    /\ par.pc = "forked"
    /\ par.tx # None /\ par.ev # None
    /\ CvbAssemble
    /\ UNCHANGED <<block, state_diff, chain_id, cvResult, hashOut, cvSteps, cpResult>>
    /\ UNCHANGED <<hdr, hdrHash, counts, countsOut>>

\* the outer rayon::join returns once both inner joins have returned
CvbJoin ==
    /\ par.pc = "forked"
    /\ \A t \in CommitmentTasks : par[t] # None
    /\ CvbAssemble
    /\ UNCHANGED <<block, state_diff, chain_id, cvResult, hashOut, cvSteps, cpResult>>
    /\ UNCHANGED <<hdr, hdrHash, counts, countsOut>>

(***************************************************************************)
(* The three stores.  A column is a function from its keys to its values;  *)
(* a put overwrites the value under an existing key.                       *)
(***************************************************************************)
EmptyColumn == <<>>

Put(col, k, v) == [x \in DOMAIN col \cup {k} |-> IF x = k THEN v ELSE col[x]]

\* the puts of a batch, in order
RECURSIVE PutAll(_, _, _)
PutAll(col, kvs, i) ==
    IF i > Len(kvs) THEN col
    ELSE PutAll(Put(col, kvs[i][1], kvs[i][2]), kvs, i + 1)

EmptyBlockDb == [blocks |-> EmptyColumn, tip |-> None, pending |-> None]

EmptyContractDb ==
    [class_hashes |-> EmptyColumn, nonces |-> EmptyColumn, storage |-> EmptyColumn,
     pending_class_hashes |-> EmptyColumn, pending_nonces |-> EmptyColumn,
     pending_storage |-> EmptyColumn]

EmptyClassDb == [classes |-> EmptyColumn, pending |-> EmptyColumn]

\* block_db_store_block: header, body, state diff, indices and sync tip in
\* one write batch; the pending block is cleared.
block_db_store_block(db, b, sd) ==
    [blocks |-> Put(db.blocks, b.block_n.some, [info |-> b.info, state_diff |-> sd]),
     tip |-> b.block_n,
     pending |-> None]

\* block_db_store_pending: the pending block replaces the stored one.
block_db_store_pending(db, b, sd) ==
    [db EXCEPT !.pending = Some([info |-> b.info, state_diff |-> sd])]

KeyedAt(kvs, n) == [i \in 1..Len(kvs) |-> <<<<kvs[i][1], n>>, kvs[i][2]>>]

\* contract_db_store_block: a batched upsert of the entries under
\* (contract, block_n) and (contract, key, block_n); the pending columns are
\* cleared.
contract_db_store_block(db, n, class_updates, nonces_updates, storage_kv_updates) ==
    [class_hashes |-> PutAll(db.class_hashes, KeyedAt(class_updates, n), 1),
     nonces |-> PutAll(db.nonces, KeyedAt(nonces_updates, n), 1),
     storage |-> PutAll(db.storage, KeyedAt(storage_kv_updates, n), 1),
     pending_class_hashes |-> EmptyColumn,
     pending_nonces |-> EmptyColumn,
     pending_storage |-> EmptyColumn]

\* contract_db_store_pending: the entries replace the pending columns.
contract_db_store_pending(db, class_updates, nonces_updates, storage_kv_updates) ==
    [db EXCEPT
        !.pending_class_hashes = PutAll(EmptyColumn, class_updates, 1),
        !.pending_nonces = PutAll(EmptyColumn, nonces_updates, 1),
        !.pending_storage = PutAll(EmptyColumn, storage_kv_updates, 1)]

\* class_db_store_block: class info (annotated with the block number) and
\* compiled class under the class hash; the pending columns are cleared.
class_db_store_block(db, n, class_info_updates, compiled_class_updates) ==
    [classes |->
        PutAll(db.classes,
               [i \in 1..Len(class_info_updates) |->
                    <<class_info_updates[i][1],
                      [info |-> class_info_updates[i][2],
                       declared_at |-> Some(n),
                       compiled |-> compiled_class_updates[i][2]]>>], 1),
     pending |-> EmptyColumn]

\* class_db_store_pending: the classes replace the pending columns.
class_db_store_pending(db, class_info_updates, compiled_class_updates) ==
    [db EXCEPT
        !.pending =
            PutAll(EmptyColumn,
                   [i \in 1..Len(class_info_updates) |->
                        <<class_info_updates[i][1],
                          [info |-> class_info_updates[i][2],
                           compiled |-> compiled_class_updates[i][2]]>>], 1)]

\* block_db_clear_pending, contract_db_clear_pending, class_db_clear_pending:
\* each empties the pending columns of its store.
block_db_clear_pending(db) == [db EXCEPT !.pending = None]

contract_db_clear_pending(db) ==
    [db EXCEPT !.pending_class_hashes = EmptyColumn,
               !.pending_nonces = EmptyColumn,
               !.pending_storage = EmptyColumn]

class_db_clear_pending(db) == [db EXCEPT !.pending = EmptyColumn]

\* the read of a pending column
get_pending(col, k) == IF k \in DOMAIN col THEN Some(col[k]) ELSE None

\* the history query: a reverse scan of the entries under the key from
\* at_block down, returning the first hit
history_get(col, k, at_block) ==
    LET hits == {n \in 0..at_block : <<k, n>> \in DOMAIN col}
    IN  IF hits = {} THEN None
        ELSE Some(col[<<k, CHOOSE n \in hits : \A m \in hits : m <= n>>])

(***************************************************************************)
(* DeoxysBackend::store_block: the three tasks it hands to rayon::join.    *)
(***************************************************************************)
\* block.info.block_n()
BlockN(b) == b.block_n

\* task_block_db
task_block_db(db, b, sd) ==
    IF BlockN(b) = None
    THEN block_db_store_pending(db, b, sd)
    ELSE block_db_store_block(db, b, sd)

\* the nonce updates first, then (address, 0) of each deployed contract
NonceMap_DeployedWins(sd) ==
    PutAll(
        PutAll(EmptyColumn,
               [i \in 1..Len(sd.nonces) |->
                    <<sd.nonces[i].contract_address, sd.nonces[i].nonce>>], 1),
        [i \in 1..Len(sd.deployed_contracts) |->
             <<sd.deployed_contracts[i].address, 0>>], 1)

\* nonce_map: (address, 0) of each deployed contract, then the nonce updates,
\* collected into a HashMap (a later entry replaces an earlier one)
NonceMap(sd) ==
    PutAll(
        PutAll(EmptyColumn,
               [i \in 1..Len(sd.deployed_contracts) |->
                    <<sd.deployed_contracts[i].address, 0>>], 1),
        [i \in 1..Len(sd.nonces) |->
             <<sd.nonces[i].contract_address, sd.nonces[i].nonce>>], 1)

\* the entries of a map in some order (HashMap::into_iter)
RECURSIVE MapEntries(_)
MapEntries(m) ==
    IF DOMAIN m = {} THEN <<>>
    ELSE LET k == CHOOSE x \in DOMAIN m : TRUE
         IN  <<<<k, m[k]>>>> \o MapEntries([x \in DOMAIN m \ {k} |-> m[x]])

\* nonces_updates: nonce_map.into_iter().collect()
nonces_updates_of(sd) == MapEntries(NonceMap(sd))

\* contract_class_updates: the replaced classes, then the deployed contracts
ContractClassUpdates(sd) ==
    [i \in 1..Len(sd.replaced_classes) |->
        <<sd.replaced_classes[i].contract_address, sd.replaced_classes[i].class_hash>>]
    \o [i \in 1..Len(sd.deployed_contracts) |->
        <<sd.deployed_contracts[i].address, sd.deployed_contracts[i].class_hash>>]

RECURSIVE StorageKvUpdates(_, _)
StorageKvUpdates(storage_diffs, i) ==
    IF i > Len(storage_diffs) THEN <<>>
    ELSE [j \in 1..Len(storage_diffs[i].storage_entries) |->
              <<<<storage_diffs[i].address, storage_diffs[i].storage_entries[j].key>>,
                storage_diffs[i].storage_entries[j].value>>]
         \o StorageKvUpdates(storage_diffs, i + 1)

\* the updates go to the pending columns whatever block_n is
task_contract_db_AlwaysPending(db, b, sd) ==
    contract_db_store_pending(
        db, ContractClassUpdates(sd), nonces_updates_of(sd),
        StorageKvUpdates(sd.storage_diffs, 1))

\* task_contract_db
task_contract_db(db, b, sd) ==
    LET contract_class_updates == ContractClassUpdates(sd)
        nonces_updates == nonces_updates_of(sd)
        storage_kv_updates == StorageKvUpdates(sd.storage_diffs, 1)
    IN  IF BlockN(b) = None
        THEN contract_db_store_pending(
                 db, contract_class_updates, nonces_updates, storage_kv_updates)
        ELSE contract_db_store_block(
                 db, BlockN(b).some, contract_class_updates, nonces_updates,
                 storage_kv_updates)

\* the classes of a pending block are not stored
task_class_db_SkipsPending(db, b, converted_classes) ==
    IF BlockN(b) = None
    THEN db
    ELSE class_db_store_block(
             db, BlockN(b).some,
             [i \in 1..Len(converted_classes) |-> converted_classes[i].class_infos],
             [i \in 1..Len(converted_classes) |-> converted_classes[i].class_compiled])

\* task_class_db
task_class_db(db, b, converted_classes) ==
    LET class_info_updates ==
            [i \in 1..Len(converted_classes) |-> converted_classes[i].class_infos]
        compiled_class_updates ==
            [i \in 1..Len(converted_classes) |-> converted_classes[i].class_compiled]
    IN  IF BlockN(b) = None
        THEN class_db_store_pending(db, class_info_updates, compiled_class_updates)
        ELSE class_db_store_block(
                 db, BlockN(b).some, class_info_updates, compiled_class_updates)

\* Result::and
ResultAnd(r1, r2) == IF r1 = "Ok" THEN r2 ELSE r1

\* the Result a task returned: Ok(()), or the DeoxysStorageError of its store
TaskResult(task, r) ==
    IF r # "Err" THEN r
    ELSE CASE task = "block_db" -> "Err(block_db)"
           [] task = "contract_db" -> "Err(contract_db)"
           [] task = "class_db" -> "Err(class_db)"

\* r1.and(r2).and(r3)
JoinResult_FirstOnly(r1, r2, r3) == r1

JoinResult(r1, r2, r3) == ResultAnd(ResultAnd(r1, r2), r3)

\* the block store is cleared and the contract store, the class store is left
clear_pending_block_SkipsClassDb(dbs, failing) ==
    IF failing = "block_db" THEN [dbs |-> dbs, result |-> "Err"]
    ELSE LET d1 == [dbs EXCEPT !.blockDb = block_db_clear_pending(@)]
         IN  IF failing = "contract_db" THEN [dbs |-> d1, result |-> "Err"]
             ELSE LET d2 == [d1 EXCEPT !.contractDb = contract_db_clear_pending(@)]
                  IN  IF failing = "class_db" THEN [dbs |-> d2, result |-> "Err"]
                      ELSE [dbs |-> d2, result |-> "Ok"]

\* DeoxysBackend::clear_pending_block: the three clears in order, each
\* followed by ?; `failing` names the clear that returns an error, if any
clear_pending_block(dbs, failing) ==
    IF failing = "block_db" THEN [dbs |-> dbs, result |-> "Err"]
    ELSE LET d1 == [dbs EXCEPT !.blockDb = block_db_clear_pending(@)]
         IN  IF failing = "contract_db" THEN [dbs |-> d1, result |-> "Err"]
             ELSE LET d2 == [d1 EXCEPT !.contractDb = contract_db_clear_pending(@)]
                  IN  IF failing = "class_db" THEN [dbs |-> d2, result |-> "Err"]
                      ELSE [dbs |-> [d2 EXCEPT !.classDb = class_db_clear_pending(@)],
                            result |-> "Ok"]

(***************************************************************************)
(* Inputs of store_block.                                                  *)
(***************************************************************************)
MaxBlockN == 1
MaxStoreCalls == 2

\* pending blocks with either content, confirmed blocks 0..MaxBlockN
StoreBlocks ==
    [block_n : {None}, info : {"a", "b"}]
    \cup [block_n : {Some(n) : n \in 0..MaxBlockN}, info : {"a"}]

StoreStateDiffs ==
    {EmptyStateDiff,
     [deployed_contracts |-> <<[address |-> 10, class_hash |-> 100]>>,
      replaced_classes |-> <<>>,
      nonces |-> <<[contract_address |-> 10, nonce |-> 1]>>,
      storage_diffs |->
          <<[address |-> 10, storage_entries |-> <<[key |-> 1, value |-> 66]>>]>>],
     [deployed_contracts |-> <<[address |-> 11, class_hash |-> 100]>>,
      replaced_classes |-> <<[contract_address |-> 10, class_hash |-> 101]>>,
      nonces |-> <<[contract_address |-> 12, nonce |-> 2]>>,
      storage_diffs |->
          <<[address |-> 10,
             storage_entries |-> <<[key |-> 1, value |-> 67],
                                   [key |-> 2, value |-> 68]>>]>>]}

ConvertedClass(h) ==
    [class_infos |-> <<h, "class_info">>, class_compiled |-> <<h, "compiled_class">>]

StoreClasses == {<<>>, <<ConvertedClass(100)>>}

NoCall ==
    [pc |-> "idle", block |-> [block_n |-> None, info |-> "a"],
     state_diff |-> EmptyStateDiff, classes |-> <<>>,
     r1 |-> "todo", r2 |-> "todo", r3 |-> "todo",
     result |-> "none", error |-> "none", n_calls |-> 0,
     log |-> <<>>,   \* the calls that returned, in order, with their results
     pre |-> [blockDb |-> EmptyBlockDb, contractDb |-> EmptyContractDb,
              classDb |-> EmptyClassDb]]

\* the threads that hold the Arc<DeoxysBackend> and may call store_block(&self)
Writers == {"w1", "w2"}

NotInFlight ==
    [pc |-> "idle", block |-> [block_n |-> None, info |-> "a"],
     state_diff |-> EmptyStateDiff, classes |-> <<>>,
     r1 |-> "todo", r2 |-> "todo", r3 |-> "todo", result |-> "none"]

Snapshot == [blockDb |-> blockDb, contractDb |-> contractDb, classDb |-> classDb]

NoRead == [seen |-> FALSE, snap |-> NoCall.pre]

StoreInit ==
    /\ blockDb = EmptyBlockDb
    /\ contractDb = EmptyContractDb
    /\ classDb = EmptyClassDb
    /\ sb = NoCall
    /\ reader = NoRead
    /\ inflight = [w \in Writers |-> NotInFlight]

StoreIdle == StoreInit

\* an error of the store is surfaced to the orchestrator, which stops
\* accepting blocks
Halted == sb.log # <<>> /\ sb.log[Len(sb.log)].result = "Err"

\* the import task calls store_block(block, state_diff, converted_classes)
StoreBlockCall ==
    /\ sb.pc = "idle"
    /\ ~Halted
    /\ sb.n_calls < MaxStoreCalls
    /\ \E b \in StoreBlocks, sd \in StoreStateDiffs, cl \in StoreClasses :
          sb' = [pc |-> "running", block |-> b, state_diff |-> sd, classes |-> cl,
                 r1 |-> "todo", r2 |-> "todo", r3 |-> "todo",
                 result |-> "none", error |-> "none", n_calls |-> sb.n_calls + 1,
                 log |-> sb.log,
                 pre |-> Snapshot]
    /\ reader' = NoRead
    /\ UNCHANGED <<blockDb, contractDb, classDb, inflight>>

\* a rayon worker runs task_block_db; the write may fail
RunTaskBlockDb ==
    /\ sb.pc = "running" /\ sb.r1 = "todo"
    /\ \/ /\ blockDb' = task_block_db(blockDb, sb.block, sb.state_diff)
          /\ sb' = [sb EXCEPT !.r1 = "Ok"]
       \/ /\ sb' = [sb EXCEPT !.r1 = "Err"]
          /\ UNCHANGED blockDb
    /\ UNCHANGED <<contractDb, classDb, reader, inflight>>

\* a rayon worker runs task_contract_db; the write may fail
RunTaskContractDb ==
    /\ sb.pc = "running" /\ sb.r2 = "todo"
    /\ \/ /\ contractDb' = task_contract_db(contractDb, sb.block, sb.state_diff)
          /\ sb' = [sb EXCEPT !.r2 = "Ok"]
       \/ /\ sb' = [sb EXCEPT !.r2 = "Err"]
          /\ UNCHANGED contractDb
    /\ UNCHANGED <<blockDb, classDb, reader, inflight>>

\* a rayon worker runs task_class_db; the write may fail
RunTaskClassDb ==
    /\ sb.pc = "running" /\ sb.r3 = "todo"
    /\ \/ /\ classDb' = task_class_db(classDb, sb.block, sb.classes)
          /\ sb' = [sb EXCEPT !.r3 = "Ok"]
       \/ /\ sb' = [sb EXCEPT !.r3 = "Err"]
          /\ UNCHANGED classDb
    /\ UNCHANGED <<blockDb, contractDb, reader, inflight>>

\* both joins have returned: store_block returns r1.and(r2).and(r3)
StoreBlockReturn ==
    /\ sb.pc = "running"
    /\ sb.r1 # "todo" /\ sb.r2 # "todo" /\ sb.r3 # "todo"
    /\ LET returned == JoinResult(TaskResult("block_db", sb.r1),
                                  TaskResult("contract_db", sb.r2),
                                  TaskResult("class_db", sb.r3))
           res == IF returned = "Ok" THEN "Ok" ELSE "Err"
       IN  sb' = [sb EXCEPT
                     !.pc = "idle", !.result = res, !.error = returned,
                     !.log = Append(@, [op |-> "store_block", block |-> sb.block,
                                        state_diff |-> sb.state_diff,
                                        classes |-> sb.classes, result |-> res])]
    /\ UNCHANGED <<blockDb, contractDb, classDb, reader, inflight>>

(***************************************************************************)
(* store_block takes &self and the backend is shared behind an Arc: the    *)
(* calls of two threads run their three tasks on the pool independently.   *)
(***************************************************************************)
\* thread w calls store_block(block, state_diff, converted_classes), once
ConcStoreBlockCall(w) ==
    /\ inflight[w].pc = "idle"
    /\ inflight[w].result = "none"
    /\ \E b \in StoreBlocks, sd \in StoreStateDiffs, cl \in StoreClasses :
          inflight' = [inflight EXCEPT ![w] =
                          [NotInFlight EXCEPT !.pc = "running", !.block = b,
                                              !.state_diff = sd, !.classes = cl]]
    /\ UNCHANGED <<blockDb, contractDb, classDb, sb, reader>>

\* a rayon worker runs one of the three tasks of w's call; the write may fail
ConcRunTask(w) ==
    LET c == inflight[w]
    IN  /\ c.pc = "running"
        /\ \/ /\ c.r1 = "todo"
              /\ \/ /\ blockDb' = task_block_db(blockDb, c.block, c.state_diff)
                    /\ inflight' = [inflight EXCEPT ![w].r1 = "Ok"]
                 \/ /\ inflight' = [inflight EXCEPT ![w].r1 = "Err"]
                    /\ UNCHANGED blockDb
              /\ UNCHANGED <<contractDb, classDb>>
           \/ /\ c.r2 = "todo"
              /\ \/ /\ contractDb' = task_contract_db(contractDb, c.block, c.state_diff)
                    /\ inflight' = [inflight EXCEPT ![w].r2 = "Ok"]
                 \/ /\ inflight' = [inflight EXCEPT ![w].r2 = "Err"]
                    /\ UNCHANGED contractDb
              /\ UNCHANGED <<blockDb, classDb>>
           \/ /\ c.r3 = "todo"
              /\ \/ /\ classDb' = task_class_db(classDb, c.block, c.classes)
                    /\ inflight' = [inflight EXCEPT ![w].r3 = "Ok"]
                 \/ /\ inflight' = [inflight EXCEPT ![w].r3 = "Err"]
                    /\ UNCHANGED classDb
              /\ UNCHANGED <<blockDb, contractDb>>
        /\ UNCHANGED <<sb, reader>>

\* both joins of w's call have returned
ConcStoreBlockReturn(w) ==
    LET c == inflight[w]
    IN  /\ c.pc = "running"
        /\ c.r1 # "todo" /\ c.r2 # "todo" /\ c.r3 # "todo"
        /\ inflight' = [inflight EXCEPT ![w].pc = "idle",
                                        ![w].result = JoinResult(c.r1, c.r2, c.r3)]
        /\ UNCHANGED <<blockDb, contractDb, classDb, sb, reader>>

\* the import task calls clear_pending_block(); any of the three clears may fail
ClearPendingBlock ==
    /\ sb.pc = "idle"
    /\ ~Halted
    /\ sb.n_calls < MaxStoreCalls
    /\ \E failing \in {"none", "block_db", "contract_db", "class_db"} :
          LET out == clear_pending_block(Snapshot, failing)
          IN  /\ blockDb' = out.dbs.blockDb
              /\ contractDb' = out.dbs.contractDb
              /\ classDb' = out.dbs.classDb
              /\ sb' = [NoCall EXCEPT
                            !.n_calls = sb.n_calls + 1,
                            !.pre = Snapshot,
                            !.log = Append(sb.log, [op |-> "clear_pending_block",
                                                    result |-> out.result])]
    /\ reader' = NoRead
    /\ UNCHANGED inflight

\* a concurrent reader reads the three stores while store_block runs
ReadStores ==
    /\ sb.pc = "running"
    /\ reader' = [seen |-> TRUE, snap |-> Snapshot]
    /\ UNCHANGED <<blockDb, contractDb, classDb, sb, inflight>>

(***************************************************************************)
(* open_rocksdb / DeoxysBackend::open, the backup worker thread            *)
(* (spawn_backup_db_task) and DeoxysBackend::backup.                       *)
(*                                                                         *)
(* A oneshot sender is followed through the places that own it:            *)
(*   "none"     not created yet                                            *)
(*   "queued"   inside a BackupRequest buffered in the mpsc channel        *)
(*   "worker"   bound to `callback` in the worker's loop body              *)
(*   "caller"   inside the TrySendError kept in `_res` by backup()         *)
(*   "sent"     consumed by a send that reached the receiver               *)
(*   "dropped"  dropped without a send, or sent to a dropped receiver      *)
(***************************************************************************)
NumCallers == 2
BACKUP_CHANNEL_CAPACITY == 1

Callers == 1..NumCallers
NoCaller == 0

Configs == [backup_dir : BOOLEAN, restore_from_latest_backup : BOOLEAN]

OpInit ==
    [pc |-> "start", result |-> "none", backup_handle |-> FALSE]

WkInit == [pc |-> "unspawned", cur |-> NoCaller]

ChanInit ==
    [queue |-> <<>>,            \* buffered BackupRequests, by caller
     rx_alive |-> FALSE,        \* the mpsc receiver exists
     tx_alive |-> FALSE,        \* some mpsc sender exists
     restored_cb |-> "none"]    \* the oneshot open waits on

CallInit ==
    [pc |-> "idle", result |-> "none", try_send |-> "none", cb |-> "none",
     after_cancel |-> FALSE, after_failure |-> FALSE]

HistInit ==
    [restored |-> FALSE,             \* restore_from_latest_backup completed
     restored_before_open |-> FALSE, \* ... before DB::open_cf_descriptors ran
     db_opened |-> FALSE,            \* DB::open_cf_descriptors succeeded
     received |-> {},                \* requests the worker received
     backed_up |-> {},               \* requests whose backup was created
     failed |-> {},                  \* requests whose backup failed
     order |-> <<>>]                 \* the backup() calls, in call order

BackupInit ==
    /\ cfg \in Configs
    /\ op = OpInit
    /\ wk = WkInit
    /\ chan = ChanInit
    /\ calls = [c \in Callers |-> CallInit]
    /\ hist = HistInit

BackupIdle ==
    /\ cfg = [backup_dir |-> FALSE, restore_from_latest_backup |-> FALSE]
    /\ op = OpInit
    /\ wk = WkInit
    /\ chan = ChanInit
    /\ calls = [c \in Callers |-> CallInit]
    /\ hist = HistInit

\* ---- the opening thread

\* open_rocksdb up to the await: options, env, and with a backup_dir the two
\* channels and the worker thread
OpenStart ==
    /\ op.pc = "start"
    /\ \/ \* Env::new failed
          /\ op' = [op EXCEPT !.pc = "done", !.result = "Err"]
          /\ UNCHANGED <<wk, chan>>
       \/ /\ cfg.backup_dir
          /\ op' = [op EXCEPT !.pc = "await_restore"]
          /\ wk' = [wk EXCEPT !.pc = "open_engine"]
          /\ chan' = [chan EXCEPT !.rx_alive = TRUE, !.tx_alive = TRUE,
                                  !.restored_cb = "pending"]
       \/ /\ ~cfg.backup_dir
          /\ op' = [op EXCEPT !.pc = "open_db"]
          /\ UNCHANGED <<wk, chan>>
    /\ UNCHANGED <<cfg, calls, hist>>

\* restored_cb_recv.await.context("Restoring database")?
\* a variant that goes on to open the database when the sender was dropped
OpenAwaitRestore_IgnoreDropped ==
    /\ op.pc = "await_restore"
    /\ chan.restored_cb \in {"sent", "dropped"}
    /\ op' = [op EXCEPT !.pc = "open_db", !.backup_handle = TRUE]
    /\ UNCHANGED <<cfg, wk, chan, calls, hist>>

OpenAwaitRestore ==
    /\ op.pc = "await_restore"
    /\ \/ /\ chan.restored_cb = "sent"
          /\ op' = [op EXCEPT !.pc = "open_db", !.backup_handle = TRUE]
          /\ UNCHANGED chan
       \/ /\ chan.restored_cb = "dropped"
          /\ op' = [op EXCEPT !.pc = "done", !.result = "Err"]
          /\ chan' = [chan EXCEPT !.tx_alive = FALSE]
    /\ UNCHANGED <<cfg, wk, calls, hist>>

\* DB::open_cf_descriptors(...)?
OpenDb ==
    /\ op.pc = "open_db"
    /\ \/ /\ op' = [op EXCEPT !.pc = "assert_chain_info"]
          /\ hist' = [hist EXCEPT !.db_opened = TRUE,
                                  !.restored_before_open = hist.restored]
          /\ UNCHANGED chan
       \/ /\ op' = [op EXCEPT !.pc = "done", !.result = "Err", !.backup_handle = FALSE]
          /\ chan' = [chan EXCEPT !.tx_alive = FALSE]
          /\ UNCHANGED hist
    /\ UNCHANGED <<cfg, wk, calls>>

\* DeoxysBackend::open: backend.assert_chain_info(chain_info)?
OpenAssertChainInfo ==
    /\ op.pc = "assert_chain_info"
    /\ \/ /\ op' = [op EXCEPT !.pc = "done", !.result = "Ok"]
          /\ UNCHANGED chan
       \/ /\ op' = [op EXCEPT !.pc = "done", !.result = "Err", !.backup_handle = FALSE]
          /\ chan' = [chan EXCEPT !.tx_alive = FALSE]
    /\ UNCHANGED <<cfg, wk, calls, hist>>

\* the last Arc<DeoxysBackend> is dropped: no backup() borrows it any more,
\* and the mpsc sender in backup_handle goes with it
DropBackend ==
    /\ op.pc = "done" /\ op.result = "Ok"
    /\ \A c \in Callers : calls[c].pc # "awaiting"
    /\ op' = [op EXCEPT !.pc = "dropped", !.backup_handle = FALSE]
    /\ chan' = [chan EXCEPT !.tx_alive = FALSE]
    /\ UNCHANGED <<cfg, wk, calls, hist>>

\* ---- the worker thread

\* spawn_backup_db_task returns an error and the thread panics on expect():
\* everything the function owns is dropped
CallsAfterWorkerDeath ==
    [c \in Callers |->
        IF calls[c].cb \in {"queued", "worker"}
        THEN [calls[c] EXCEPT !.cb = "dropped"]
        ELSE calls[c]]

WorkerDies ==
    /\ wk' = [pc |-> "panicked", cur |-> NoCaller]
    /\ chan' = [chan EXCEPT
                   !.queue = <<>>,
                   !.rx_alive = FALSE,
                   !.restored_cb = IF @ = "pending" THEN "dropped" ELSE @]
    /\ calls' = CallsAfterWorkerDeath

\* BackupEngineOptions::new, Env::new, BackupEngine::open
WorkerOpenEngine ==
    /\ wk.pc = "open_engine"
    /\ \/ /\ wk' = [wk EXCEPT !.pc = IF cfg.restore_from_latest_backup
                                     THEN "create_dir" ELSE "signal"]
          /\ UNCHANGED <<chan, calls>>
       \/ WorkerDies
    /\ UNCHANGED <<cfg, op, hist>>

\* fs::create_dir_all(db_path)
WorkerCreateDir ==
    /\ wk.pc = "create_dir"
    /\ \/ /\ wk' = [wk EXCEPT !.pc = "restore"]
          /\ UNCHANGED <<chan, calls>>
       \/ WorkerDies
    /\ UNCHANGED <<cfg, op, hist>>

\* engine.restore_from_latest_backup(db_path, db_path, &opts)
WorkerRestore ==
    /\ wk.pc = "restore"
    /\ \/ /\ wk' = [wk EXCEPT !.pc = "signal"]
          /\ hist' = [hist EXCEPT !.restored = TRUE]
          /\ UNCHANGED <<chan, calls>>
       \/ WorkerDies /\ UNCHANGED hist
    /\ UNCHANGED <<cfg, op>>

\* db_restored_cb.send(()): the opening thread holds the receiver until it
\* has resumed
WorkerSignal ==
    /\ wk.pc = "signal"
    /\ wk' = [wk EXCEPT !.pc = "recv"]
    /\ chan' = [chan EXCEPT !.restored_cb = "sent"]
    /\ UNCHANGED <<cfg, op, calls, hist>>

\* recv.blocking_recv(): a request, or None once the channel is empty and
\* every sender is gone
\* a variant that acknowledges a request as it receives it
WorkerRecv_AckEarly ==
    /\ wk.pc = "recv"
    /\ Len(chan.queue) > 0
    /\ LET c == Head(chan.queue)
       IN  /\ wk' = [pc |-> "backup", cur |-> c]
           /\ calls' = [calls EXCEPT ![c].cb = "sent"]
           /\ chan' = [chan EXCEPT !.queue = Tail(@)]
           /\ hist' = [hist EXCEPT !.received = @ \cup {c}]
    /\ UNCHANGED <<cfg, op>>

\* a variant whose loop ends as soon as no request is buffered
WorkerRecv_ExitsWhenEmpty ==
    /\ wk.pc = "recv"
    /\ \/ /\ Len(chan.queue) > 0
          /\ LET c == Head(chan.queue)
             IN  /\ wk' = [pc |-> "backup", cur |-> c]
                 /\ calls' = [calls EXCEPT ![c].cb = "worker"]
                 /\ chan' = [chan EXCEPT !.queue = Tail(@)]
                 /\ hist' = [hist EXCEPT !.received = @ \cup {c}]
       \/ /\ Len(chan.queue) = 0
          /\ wk' = [pc |-> "exited", cur |-> NoCaller]
          /\ chan' = [chan EXCEPT !.rx_alive = FALSE]
          /\ UNCHANGED <<calls, hist>>
    /\ UNCHANGED <<cfg, op>>

WorkerRecv ==
    /\ wk.pc = "recv"
    /\ \/ /\ Len(chan.queue) > 0
          /\ LET c == Head(chan.queue)
             IN  /\ wk' = [pc |-> "backup", cur |-> c]
                 /\ calls' = [calls EXCEPT ![c].cb = "worker"]
                 /\ chan' = [chan EXCEPT !.queue = Tail(@)]
                 /\ hist' = [hist EXCEPT !.received = @ \cup {c}]
       \/ /\ Len(chan.queue) = 0
          /\ ~chan.tx_alive
          /\ wk' = [pc |-> "exited", cur |-> NoCaller]
          /\ chan' = [chan EXCEPT !.rx_alive = FALSE]
          /\ UNCHANGED <<calls, hist>>
    /\ UNCHANGED <<cfg, op>>

\* engine.create_new_backup_flush(&db, true).context(...)?
WorkerBackup ==
    /\ wk.pc = "backup"
    /\ \/ /\ wk' = [wk EXCEPT !.pc = "ack"]
          /\ hist' = [hist EXCEPT !.backed_up = @ \cup {wk.cur}]
          /\ UNCHANGED <<chan, calls>>
       \/ /\ WorkerDies
          /\ hist' = [hist EXCEPT !.failed = @ \cup {wk.cur}]
    /\ UNCHANGED <<cfg, op>>

\* let _ = callback.send(());
WorkerAck ==
    /\ wk.pc = "ack"
    /\ calls' = [calls EXCEPT
                    ![wk.cur].cb = IF calls[wk.cur].pc = "awaiting"
                                   THEN "sent" ELSE "dropped"]
    /\ wk' = [pc |-> "recv", cur |-> NoCaller]
    /\ UNCHANGED <<cfg, op, chan, hist>>

\* ---- backup()

\* mpsc::Sender::try_send
TrySend_Blocking(c) ==
    IF ~chan.rx_alive THEN "Closed" ELSE "Sent"

TrySend(c) ==
    IF ~chan.rx_alive THEN "Closed"
    ELSE IF Len(chan.queue) >= BACKUP_CHANNEL_CAPACITY THEN "Full"
    ELSE "Sent"

SomeCancelledAfterEnqueue ==
    \E d \in Callers : calls[d].pc = "cancelled" /\ calls[d].try_send = "Sent"

\* a variant that does not look at backup_handle before try_send
BackupCall_NoHandleCheck(c) ==
    /\ op.pc = "done" /\ op.result = "Ok"
    /\ calls[c].pc = "idle"
    /\ hist' = [hist EXCEPT !.order = Append(@, c)]
    /\ LET res == TrySend(c)
       IN  /\ calls' = [calls EXCEPT
                  ![c].pc = "awaiting",
                  ![c].try_send = res,
                  ![c].cb = IF res = "Sent" THEN "queued" ELSE "caller",
                  ![c].after_cancel = SomeCancelledAfterEnqueue,
                  ![c].after_failure = hist.failed # {}]
           /\ chan' = [chan EXCEPT
                  !.queue = IF res = "Sent" THEN Append(@, c) ELSE @]
    /\ UNCHANGED <<cfg, op, wk>>

\* backup() up to its await: the oneshot, the handle, try_send
BackupCall(c) ==
    /\ op.pc = "done" /\ op.result = "Ok"
    /\ calls[c].pc = "idle"
    /\ hist' = [hist EXCEPT !.order = Append(@, c)]
    /\ IF ~op.backup_handle
       THEN \* .context("backups are not enabled")?
            /\ calls' = [calls EXCEPT ![c].pc = "done", ![c].result = "Err",
                                      ![c].try_send = "Disabled"]
            /\ UNCHANGED chan
       ELSE LET res == TrySend(c)
            IN  /\ calls' = [calls EXCEPT
                       ![c].pc = "awaiting",
                       ![c].try_send = res,
                       ![c].cb = IF res = "Sent" THEN "queued" ELSE "caller",
                       ![c].after_cancel = SomeCancelledAfterEnqueue,
                       ![c].after_failure = hist.failed # {}]
                /\ chan' = [chan EXCEPT
                       !.queue = IF res = "Sent" THEN Append(@, c) ELSE @]
    /\ UNCHANGED <<cfg, op, wk>>

\* callback_recv.await.context("Backups task died :(")?
BackupAwait(c) ==
    /\ calls[c].pc = "awaiting"
    /\ \/ /\ calls[c].cb = "sent"
          /\ calls' = [calls EXCEPT ![c].pc = "done", ![c].result = "Ok"]
       \/ /\ calls[c].cb = "dropped"
          /\ calls' = [calls EXCEPT ![c].pc = "done", ![c].result = "Err"]
    /\ UNCHANGED <<cfg, op, wk, chan, hist>>

\* the backup() future is dropped at its await
BackupCancel(c) ==
    /\ calls[c].pc = "awaiting"
    /\ calls' = [calls EXCEPT
                    ![c].pc = "cancelled",
                    ![c].cb = IF @ = "caller" THEN "dropped" ELSE @]
    /\ UNCHANGED <<cfg, op, wk, chan, hist>>

(***************************************************************************)
(* DeoxysBackend::maybe_flush.  Threads call it concurrently; the          *)
(* last_flush_time mutex is taken on entry and its guard lives until the   *)
(* function returns.  The clock counts whole seconds.                      *)
(***************************************************************************)
FLUSH_INTERVAL_SECS == 5

NumFlushThreads == 2
MaxFlushCalls == 3
MaxNow == 5

FlushThreads == 1..NumFlushThreads

FlushCallInit ==
    [pc |-> "idle",            \* idle, lock, flushing, returned
     force |-> FALSE,          \* the argument
     seen |-> None,            \* *inst as read under the lock
     decided_at |-> 0,         \* the clock when should_flush was computed
     should_flush |-> FALSE,
     blocked |-> FALSE,        \* lock() found the mutex held by a flushing thread
     flushed |-> FALSE,        \* flush_cfs_opt over all columns succeeded
     result |-> "none"]        \* Ok(true), Ok(false), Err

FlushInit ==
    /\ now = 0
    /\ last_flush_time = None
    /\ flush_mutex = None
    /\ fcall = [t \in FlushThreads |-> FlushCallInit]
    /\ n_flush_calls = 0

FlushIdle == FlushInit

\* inst.elapsed()
elapsed(inst, t_now) == t_now - inst

\* force || match *inst { Some(inst) => inst.elapsed() >= 5 s, None => true }
should_flush(force, inst, t_now) ==
    force \/ (IF inst = None THEN TRUE
              ELSE elapsed(inst.some, t_now) >= FLUSH_INTERVAL_SECS)

\* time passes
Tick ==
    /\ now < MaxNow
    /\ now' = now + 1
    /\ UNCHANGED <<last_flush_time, flush_mutex, fcall, n_flush_calls>>

\* a thread calls maybe_flush(force) and blocks on last_flush_time.lock()
MaybeFlushCall(t) ==
    /\ fcall[t].pc \in {"idle", "returned"}
    /\ n_flush_calls < MaxFlushCalls
    /\ \E force \in BOOLEAN :
          fcall' = [fcall EXCEPT ![t] = [FlushCallInit EXCEPT !.pc = "lock",
                                                              !.force = force]]
    /\ n_flush_calls' = n_flush_calls + 1
    /\ UNCHANGED <<now, last_flush_time, flush_mutex>>

\* the decision taken without the mutex
MaybeFlushLock_NoMutex(t) ==
    /\ fcall[t].pc = "lock"
    /\ LET sf == should_flush(fcall[t].force, last_flush_time, now)
           decided == [fcall[t] EXCEPT
                          !.seen = last_flush_time, !.decided_at = now,
                          !.should_flush = sf]
       IN  fcall' = [fcall EXCEPT ![t] =
                        IF sf THEN [decided EXCEPT !.pc = "flushing"]
                        ELSE [decided EXCEPT !.pc = "returned", !.result = "Ok(false)"]]
    /\ UNCHANGED <<now, last_flush_time, flush_mutex, n_flush_calls>>

\* the lock is acquired and should_flush computed; without a flush the
\* function returns Ok(false) and the guard is dropped
MaybeFlushLock(t) ==
    /\ fcall[t].pc = "lock"
    /\ flush_mutex = None
    /\ LET sf == should_flush(fcall[t].force, last_flush_time, now)
           decided == [fcall[t] EXCEPT
                          !.seen = last_flush_time, !.decided_at = now,
                          !.should_flush = sf]
       IN  IF sf
           THEN /\ fcall' = [u \in FlushThreads |->
                                IF u = t THEN [decided EXCEPT !.pc = "flushing"]
                                ELSE IF fcall[u].pc = "lock"
                                     THEN [fcall[u] EXCEPT !.blocked = TRUE]
                                     ELSE fcall[u]]
                /\ flush_mutex' = Some(t)
           ELSE /\ fcall' = [fcall EXCEPT ![t] = [decided EXCEPT !.pc = "returned",
                                                                !.result = "Ok(false)"]]
                /\ flush_mutex' = None
    /\ UNCHANGED <<now, last_flush_time, n_flush_calls>>

\* db.flush_cfs_opt over Column::ALL with wait = true, then
\* the flush time is recorded before the flush is attempted
MaybeFlushFlush_StampsOnFailure(t) ==
    /\ fcall[t].pc = "flushing"
    /\ last_flush_time' = Some(now)
    /\ \/ fcall' = [fcall EXCEPT ![t].pc = "returned", ![t].flushed = TRUE,
                                 ![t].result = "Ok(true)"]
       \/ fcall' = [fcall EXCEPT ![t].pc = "returned", ![t].result = "Err"]
    /\ flush_mutex' = IF flush_mutex = Some(t) THEN None ELSE flush_mutex
    /\ UNCHANGED <<now, n_flush_calls>>

\* the timestamp recorded is the one of the decision
MaybeFlushFlush_StampsDecision(t) ==
    /\ fcall[t].pc = "flushing"
    /\ \/ /\ last_flush_time' = Some(fcall[t].decided_at)
          /\ fcall' = [fcall EXCEPT ![t].pc = "returned", ![t].flushed = TRUE,
                                    ![t].result = "Ok(true)"]
       \/ /\ fcall' = [fcall EXCEPT ![t].pc = "returned", ![t].result = "Err"]
          /\ UNCHANGED last_flush_time
    /\ flush_mutex' = IF flush_mutex = Some(t) THEN None ELSE flush_mutex
    /\ UNCHANGED <<now, n_flush_calls>>

\* *inst = Some(Instant::now()) and Ok(true); a failed flush returns the
\* error and leaves last_flush_time as it was.  The guard is dropped on return.
MaybeFlushFlush(t) ==
    /\ fcall[t].pc = "flushing"
    /\ \/ /\ last_flush_time' = Some(now)
          /\ fcall' = [fcall EXCEPT ![t].pc = "returned", ![t].flushed = TRUE,
                                    ![t].result = "Ok(true)"]
       \/ /\ fcall' = [fcall EXCEPT ![t].pc = "returned", ![t].result = "Err"]
          /\ UNCHANGED last_flush_time
    /\ flush_mutex' = IF flush_mutex = Some(t) THEN None ELSE flush_mutex
    /\ UNCHANGED <<now, n_flush_calls>>

(***************************************************************************)
(* convert_and_verify_class (client/sync/src/utils/convert.rs).            *)
(***************************************************************************)
MaxClasses == 2

\* ContractClass::compile(): the compiled class, or the compilation error
compile(contract_class) ==
    IF contract_class.compiles
    THEN [tag |-> "Ok", compiled_of |-> contract_class.id]
    ELSE Err([kind |-> "CompilationError", of |-> contract_class.id])

\* the closure mapped over the class updates, had its class-hash check been
\* left in: it returns MismatchedClassHash when the advertised hash differs
convert_class_Verifying(class_update, block_n) ==
    IF class_update.class_hash # class_update.contract_class.class_hash
    THEN Err([kind |-> "MismatchedClassHash",
              of |-> class_update.contract_class.id])
    ELSE IF IsErr(compile(class_update.contract_class))
    THEN Err([kind |-> "CompilationClassError",
              of |-> class_update.contract_class.id])
    ELSE [tag |-> "Ok",
          class_infos |-> <<class_update.class_hash,
                            [contract_class |-> class_update.contract_class,
                             block_number |-> block_n,
                             compiled_class_hash |-> class_update.compiled_class_hash]>>,
          class_compiled |-> <<class_update.class_hash,
                               compile(class_update.contract_class)>>]

\* the closure mapped over the class updates: the class-hash check is commented
\* out, the class is compiled and wrapped under the advertised class_hash
convert_class(class_update, block_n) ==
    IF IsErr(compile(class_update.contract_class))
    THEN Err([kind |-> "CompilationClassError",
              of |-> class_update.contract_class.id])
    ELSE [tag |-> "Ok",
          class_infos |-> <<class_update.class_hash,
                            [contract_class |-> class_update.contract_class,
                             block_number |-> block_n,
                             compiled_class_hash |-> class_update.compiled_class_hash]>>,
          class_compiled |-> <<class_update.class_hash,
                               compile(class_update.contract_class)>>]

\* into_par_iter().map(..).collect::<Result<Vec<_>, _>>(): the converted classes
\* in input order, or the error of one failing class (with several failures the
\* parallel collect returns whichever it met first)
convert_and_verify_class(cls, block_n) ==
    LET converted == [i \in 1..Len(cls) |-> convert_class(cls[i], block_n)]
        failed == {i \in 1..Len(cls) : IsErr(converted[i])}
    IN  IF failed = {}
        THEN {[tag |-> "Ok", classes |-> converted]}
        ELSE {converted[i] : i \in failed}

\* the class updates of a block: the advertised class_hash may differ from the
\* hash of the class itself, and a class may fail to compile
ClassUpdateInputs ==
    [class_hash : {21, 22},
     contract_class : [id : {"A", "B"}, class_hash : {21}, compiles : BOOLEAN],
     compiled_class_hash : {31}]

ClassInit ==
    /\ db_class_updates \in SeqsUpTo(ClassUpdateInputs, MaxClasses)
    /\ class_block_n \in {None, Some(0), Some(7)}
    /\ classResult = NoResult

\* the sync task hands the block's class updates to convert_and_verify_class
ConvertAndVerifyClass ==
    /\ classResult = NoResult
    /\ classResult' \in convert_and_verify_class(db_class_updates, class_block_n)
    /\ UNCHANGED <<db_class_updates, class_block_n>>

(***************************************************************************)
(* ExecutionContext::execution_result_to_fee_estimate (client/exec/src/    *)
(* fee.rs).  The amounts and prices are u128; MaxU128 stands for u128::MAX *)
(* on a scale that the model checker's integers can hold.                  *)
(***************************************************************************)
MaxU128 == 15

\* u128::saturating_mul, saturating_add, saturating_sub
saturating_mul(a, b) == IF a * b > MaxU128 THEN MaxU128 ELSE a * b
saturating_add(a, b) == IF a + b > MaxU128 THEN MaxU128 ELSE a + b
saturating_sub(a, b) == IF a < b THEN 0 ELSE a - b

\* Ord::max
max(a, b) == IF a >= b THEN a ELSE b

\* GasPrices::get_gas_price_by_fee_type(..).get(), a NonZeroU128
get_gas_price_by_fee_type(prices, fee_type) ==
    IF fee_type = "Eth" THEN prices.eth_l1_gas_price ELSE prices.strk_l1_gas_price

\* GasPrices::get_data_gas_price_by_fee_type(..).get()
get_data_gas_price_by_fee_type(prices, fee_type) ==
    IF fee_type = "Eth" THEN prices.eth_l1_data_gas_price
    ELSE prices.strk_l1_data_gas_price

\* Option<GasVector>::unwrap_or_default
unwrap_or_default(minimal_l1_gas) ==
    IF minimal_l1_gas = None THEN [l1_gas |-> 0, l1_data_gas |-> 0]
    ELSE minimal_l1_gas.some

\* the data gas fee is subtracted with the data gas raised to its minimum
execution_result_to_fee_estimate_MinimumFirst(prices, er) ==
    LET gas_price == get_gas_price_by_fee_type(prices, er.fee_type)
        data_gas_price == get_data_gas_price_by_fee_type(prices, er.fee_type)
        data_gas_consumed ==
            max(er.execution_info.da_gas.l1_data_gas,
                unwrap_or_default(er.minimal_l1_gas).l1_data_gas)
        data_gas_fee == saturating_mul(data_gas_consumed, data_gas_price)
        gas_consumed ==
            max(saturating_sub(er.execution_info.actual_fee, data_gas_fee)
                    \div max(gas_price, 1),
                unwrap_or_default(er.minimal_l1_gas).l1_gas)
    IN  [gas_consumed |-> gas_consumed,
         gas_price |-> gas_price,
         data_gas_consumed |-> data_gas_consumed,
         data_gas_price |-> data_gas_price,
         overall_fee |->
             saturating_add(saturating_mul(gas_consumed, gas_price),
                            saturating_mul(data_gas_consumed, data_gas_price)),
         unit |-> IF er.fee_type = "Eth" THEN "Wei" ELSE "Fri"]

execution_result_to_fee_estimate(prices, er) ==
    LET gas_price == get_gas_price_by_fee_type(prices, er.fee_type)
        data_gas_price == get_data_gas_price_by_fee_type(prices, er.fee_type)
        data_gas_consumed_0 == er.execution_info.da_gas.l1_data_gas
        data_gas_fee == saturating_mul(data_gas_consumed_0, data_gas_price)
        gas_consumed_0 ==
            saturating_sub(er.execution_info.actual_fee, data_gas_fee)
                \div max(gas_price, 1)
        minimal_gas_consumed == unwrap_or_default(er.minimal_l1_gas).l1_gas
        minimal_data_gas_consumed == unwrap_or_default(er.minimal_l1_gas).l1_data_gas
        gas_consumed == max(gas_consumed_0, minimal_gas_consumed)
        data_gas_consumed == max(data_gas_consumed_0, minimal_data_gas_consumed)
        overall_fee ==
            saturating_add(saturating_mul(gas_consumed, gas_price),
                           saturating_mul(data_gas_consumed, data_gas_price))
    IN  [gas_consumed |-> gas_consumed,
         gas_price |-> gas_price,
         data_gas_consumed |-> data_gas_consumed,
         data_gas_price |-> data_gas_price,
         overall_fee |-> overall_fee,
         unit |-> IF er.fee_type = "Eth" THEN "Wei" ELSE "Fri"]

\* amounts from zero to u128::MAX, non-zero prices up to u128::MAX
FeeAmounts == {0, 2, MaxU128 \div 2, MaxU128}
FeePrices == {1, 3, MaxU128}

ExecutionResults ==
    [fee_type : {"Eth", "Strk"},
     execution_info : [actual_fee : FeeAmounts,
                       da_gas : [l1_data_gas : FeeAmounts]],
     minimal_l1_gas :
         {None} \cup {Some(g) : g \in [l1_gas : FeeAmounts, l1_data_gas : FeeAmounts]}]

BlockGasPrices ==
    [eth_l1_gas_price : FeePrices, strk_l1_gas_price : FeePrices,
     eth_l1_data_gas_price : FeePrices, strk_l1_data_gas_price : FeePrices]

FeeInit ==
    /\ executions_result \in {Some(er) : er \in ExecutionResults}
    /\ block_gas_prices \in {Some(p) : p \in BlockGasPrices}
    /\ fee_estimate = None

\* the RPC layer turns the result of an execution into a fee estimate
ExecutionResultToFeeEstimate ==
    /\ fee_estimate = None
    /\ fee_estimate' =
           Some(execution_result_to_fee_estimate(block_gas_prices.some,
                                                 executions_result.some))
    /\ UNCHANGED <<executions_result, block_gas_prices>>

FeeIdle ==
    /\ executions_result = None
    /\ block_gas_prices = None
    /\ fee_estimate = None

PureIdle ==
    /\ db_class_updates = <<>>
    /\ class_block_n = None
    /\ classResult = NoResult
    /\ FeeIdle

(***************************************************************************)
(* SpecBackup: one open, then backup() calls against the worker thread.    *)
(***************************************************************************)
InitBackup == HashIdle /\ StoreIdle /\ BackupInit /\ FlushIdle /\ PureIdle

NextBackup ==
    \/ OpenStart /\ UNCHANGED <<hashVars, storeVars, flushVars, pureVars>>
    \/ OpenAwaitRestore /\ UNCHANGED <<hashVars, storeVars, flushVars, pureVars>>
    \/ OpenDb /\ UNCHANGED <<hashVars, storeVars, flushVars, pureVars>>
    \/ OpenAssertChainInfo /\ UNCHANGED <<hashVars, storeVars, flushVars, pureVars>>
    \/ DropBackend /\ UNCHANGED <<hashVars, storeVars, flushVars, pureVars>>
    \/ WorkerOpenEngine /\ UNCHANGED <<hashVars, storeVars, flushVars, pureVars>>
    \/ WorkerCreateDir /\ UNCHANGED <<hashVars, storeVars, flushVars, pureVars>>
    \/ WorkerRestore /\ UNCHANGED <<hashVars, storeVars, flushVars, pureVars>>
    \/ WorkerSignal /\ UNCHANGED <<hashVars, storeVars, flushVars, pureVars>>
    \/ WorkerRecv /\ UNCHANGED <<hashVars, storeVars, flushVars, pureVars>>
    \/ WorkerBackup /\ UNCHANGED <<hashVars, storeVars, flushVars, pureVars>>
    \/ WorkerAck /\ UNCHANGED <<hashVars, storeVars, flushVars, pureVars>>
    \/ \E c \in Callers : BackupCall(c) /\ UNCHANGED <<hashVars, storeVars, flushVars, pureVars>>
    \/ \E c \in Callers : BackupAwait(c) /\ UNCHANGED <<hashVars, storeVars, flushVars, pureVars>>
    \/ \E c \in Callers : BackupCancel(c) /\ UNCHANGED <<hashVars, storeVars, flushVars, pureVars>>

SpecBackup == InitBackup /\ [][NextBackup]_vars

\* the worker is an OS thread of its own: it is scheduled whenever it can
\* take a step, and each operation of the backup engine finishes
WorkerNext ==
    \/ WorkerOpenEngine \/ WorkerCreateDir \/ WorkerRestore \/ WorkerSignal
    \/ WorkerRecv \/ WorkerBackup \/ WorkerAck

SpecBackupLive == SpecBackup /\ WF_backupVars(WorkerNext)

\* the runtime also polls every backup() future that can make progress
SpecBackupFair ==
    SpecBackupLive /\ \A c \in Callers : WF_backupVars(BackupAwait(c))

(***************************************************************************)
(* SpecHash: the conversion and the hashing of one gateway block.          *)
(***************************************************************************)
InitHash == HashInit /\ StoreIdle /\ BackupIdle /\ FlushIdle /\ PureIdle

NextHash ==
    \/ ConvertAndVerifyBlock /\ UNCHANGED <<storeVars, backupVars, flushVars, pureVars>>
    \/ ComputeHash /\ UNCHANGED <<storeVars, backupVars, flushVars, pureVars>>
    \/ ConvertPending /\ UNCHANGED <<storeVars, backupVars, flushVars, pureVars>>

SpecHash == InitHash /\ [][NextHash]_vars

(***************************************************************************)
(* SpecStore: store_block calls, their three tasks run by the rayon pool   *)
(* in any order, and a concurrent reader.                                  *)
(***************************************************************************)
InitStore == HashIdle /\ StoreInit /\ BackupIdle /\ FlushIdle /\ PureIdle

NextStore ==
    \/ StoreBlockCall /\ UNCHANGED <<hashVars, backupVars, flushVars, pureVars>>
    \/ RunTaskBlockDb /\ UNCHANGED <<hashVars, backupVars, flushVars, pureVars>>
    \/ RunTaskContractDb /\ UNCHANGED <<hashVars, backupVars, flushVars, pureVars>>
    \/ RunTaskClassDb /\ UNCHANGED <<hashVars, backupVars, flushVars, pureVars>>
    \/ StoreBlockReturn /\ UNCHANGED <<hashVars, backupVars, flushVars, pureVars>>
    \/ ReadStores /\ UNCHANGED <<hashVars, backupVars, flushVars, pureVars>>
    \/ ClearPendingBlock /\ UNCHANGED <<hashVars, backupVars, flushVars, pureVars>>

SpecStore == InitStore /\ [][NextStore]_vars

(***************************************************************************)
(* SpecStoreSeq: the same calls, looked at between calls only (no          *)
(* concurrent reader).                                                     *)
(***************************************************************************)
InitStoreSeq == InitStore

NextStoreSeq ==
    \/ StoreBlockCall /\ UNCHANGED <<hashVars, backupVars, flushVars, pureVars>>
    \/ RunTaskBlockDb /\ UNCHANGED <<hashVars, backupVars, flushVars, pureVars>>
    \/ RunTaskContractDb /\ UNCHANGED <<hashVars, backupVars, flushVars, pureVars>>
    \/ RunTaskClassDb /\ UNCHANGED <<hashVars, backupVars, flushVars, pureVars>>
    \/ StoreBlockReturn /\ UNCHANGED <<hashVars, backupVars, flushVars, pureVars>>
    \/ ClearPendingBlock /\ UNCHANGED <<hashVars, backupVars, flushVars, pureVars>>

SpecStoreSeq == InitStoreSeq /\ [][NextStoreSeq]_vars

(***************************************************************************)
(* SpecFlush: threads calling maybe_flush while time passes.               *)
(***************************************************************************)
(* The stores written by the threads that share the backend.               *)
(***************************************************************************)
(* The header hash and concat_counts on their own inputs.                  *)
(***************************************************************************)
InitHeader ==
    /\ block = None
    /\ state_diff = EmptyStateDiff
    /\ chain_id = MAIN_CHAIN_ID
    /\ cvResult = NoResult
    /\ hashOut = NoHash
    /\ cvSteps = <<>>
    /\ cpResult = NoResult
    /\ par = NoTasks
    /\ HeaderInit
    /\ StoreIdle /\ BackupIdle /\ FlushIdle /\ PureIdle

NextHeader ==
    \/ HeaderComputeHash /\ UNCHANGED <<storeVars, backupVars, flushVars, pureVars>>
    \/ ConcatCounts /\ UNCHANGED <<storeVars, backupVars, flushVars, pureVars>>

SpecHeader == InitHeader /\ [][NextHeader]_vars

(***************************************************************************)
(* convert_and_verify_block under every scheduling of its four tasks.      *)
(***************************************************************************)
InitCommit == HashInit /\ StoreIdle /\ BackupIdle /\ FlushIdle /\ PureIdle

NextCommit ==
    \/ CvbStart /\ UNCHANGED <<storeVars, backupVars, flushVars, pureVars>>
    \/ \E t \in CommitmentTasks : CvbTask(t) /\ UNCHANGED <<storeVars, backupVars, flushVars, pureVars>>
    \/ CvbJoin /\ UNCHANGED <<storeVars, backupVars, flushVars, pureVars>>

SpecCommit == InitCommit /\ [][NextCommit]_vars

(***************************************************************************)
InitStoreConc == HashIdle /\ StoreInit /\ BackupIdle /\ FlushIdle /\ PureIdle

NextStoreConc ==
    \/ \E w \in Writers : ConcStoreBlockCall(w) /\ UNCHANGED <<hashVars, backupVars, flushVars, pureVars>>
    \/ \E w \in Writers : ConcRunTask(w) /\ UNCHANGED <<hashVars, backupVars, flushVars, pureVars>>
    \/ \E w \in Writers : ConcStoreBlockReturn(w) /\ UNCHANGED <<hashVars, backupVars, flushVars, pureVars>>

SpecStoreConc == InitStoreConc /\ [][NextStoreConc]_vars

(***************************************************************************)
InitFlush == HashIdle /\ StoreIdle /\ BackupIdle /\ FlushInit /\ PureIdle

NextFlush ==
    \/ Tick /\ UNCHANGED <<hashVars, storeVars, backupVars, pureVars>>
    \/ \E t \in FlushThreads : MaybeFlushCall(t) /\ UNCHANGED <<hashVars, storeVars, backupVars, pureVars>>
    \/ \E t \in FlushThreads : MaybeFlushLock(t) /\ UNCHANGED <<hashVars, storeVars, backupVars, pureVars>>
    \/ \E t \in FlushThreads : MaybeFlushFlush(t) /\ UNCHANGED <<hashVars, storeVars, backupVars, pureVars>>

SpecFlush == InitFlush /\ [][NextFlush]_vars

(***************************************************************************)
(* SpecClass: convert_and_verify_class on every list of class updates.     *)
(***************************************************************************)
InitClass ==
    HashIdle /\ StoreIdle /\ BackupIdle /\ FlushIdle /\ ClassInit /\ FeeIdle

NextClass ==
    ConvertAndVerifyClass
        /\ UNCHANGED <<hashVars, storeVars, backupVars, flushVars>>
        /\ UNCHANGED <<executions_result, block_gas_prices, fee_estimate>>

SpecClass == InitClass /\ [][NextClass]_vars

(***************************************************************************)
(* SpecFee: execution_result_to_fee_estimate on every execution result.    *)
(***************************************************************************)
InitFee ==
    /\ HashIdle /\ StoreIdle /\ BackupIdle /\ FlushIdle /\ FeeInit
    /\ db_class_updates = <<>> /\ class_block_n = None /\ classResult = NoResult

NextFee ==
    ExecutionResultToFeeEstimate
        /\ UNCHANGED <<hashVars, storeVars, backupVars, flushVars>>
        /\ UNCHANGED <<db_class_updates, class_block_n, classResult>>

SpecFee == InitFee /\ [][NextFee]_vars

(***************************************************************************)
(* Claims on the hashing regimes and the verification policy.              *)
(***************************************************************************)
Regime(hash) ==
    IF hash.alg = "Pedersen" /\ Len(hash.elems) = 12 THEN "pre_v0_7"
    ELSE IF hash.alg = "Pedersen" /\ Len(hash.elems) = 11 THEN "pedersen_11"
    ELSE IF hash.alg = "Poseidon" /\ Len(hash.elems) = 17 THEN "poseidon_17"
    ELSE "none"

HashedHeader == AssembledHeader(block, state_diff, chain_id)

\* C1: compute_hash selects exactly one regime: pre-v0.7 iff block_number < 833
\* on mainnet (whatever the protocol version), otherwise Pedersen over 11
\* elements iff protocol_version < 0.13.2, otherwise Poseidon over 17 elements;
\* block 832 on mainnet is pre-v0.7, block 833 is not, and no block of another
\* chain is.
C1_RegimeSelection ==
    hashOut # NoHash =>
        LET h == HashedHeader
            mainnet == chain_id = FeltBytes("SN_MAIN")
        IN  /\ Regime(hashOut) \in {"pre_v0_7", "pedersen_11", "poseidon_17"}
            /\ Regime(hashOut) = "pre_v0_7" <=> (h.block_number < 833 /\ mainnet)
            /\ Regime(hashOut) = "pedersen_11" <=>
                  (~(h.block_number < 833 /\ mainnet)
                   /\ VersionLt(h.protocol_version, <<0, 13, 2, 0>>))
            /\ (h.block_number = 832 /\ mainnet) => Regime(hashOut) = "pre_v0_7"
            /\ (h.block_number = 833 /\ mainnet) => Regime(hashOut) # "pre_v0_7"
            /\ ~mainnet => Regime(hashOut) # "pre_v0_7"

\* block 832 of mainnet has been hashed, with a protocol version of the
\* Poseidon era
C1_Witness ==
    /\ hashOut # NoHash
    /\ chain_id = MAIN_CHAIN_ID
    /\ block.block_number = Some(832)
    /\ block.starknet_version = Some("0.13.2")
    /\ Regime(hashOut) = "pre_v0_7"

\* C2: when decoding succeeds and block_hash, block_number and state_root are
\* present, convert_and_verify_block returns MismatchedBlockHash(block_number)
\* iff the computed hash differs from the advertised one and the block is not
\* a mainnet block numbered 1466..2242.
C2_MismatchPolicy ==
    (/\ cvResult # NoResult
     /\ DecodingSucceeds(block)
     /\ HeaderFieldsPresent(block)
     /\ block.block_hash # None) =>
        LET n == block.block_number.some
            wrong == compute_hash(HashedHeader, chain_id) # block.block_hash.some
            excepted == chain_id = FeltBytes("SN_MAIN") /\ 1466 <= n /\ n <= 2242
            rejected == cvResult = [tag |-> "Err", err |-> "MismatchedBlockHash",
                                    block_number |-> n]
        IN  /\ rejected <=> (wrong /\ ~excepted)
            /\ ~rejected => cvResult.tag = "Ok"

\* mainnet block 1466 with a wrong advertised hash has been accepted
C2_Witness ==
    /\ cvResult.tag = "Ok"
    /\ chain_id = MAIN_CHAIN_ID
    /\ block.block_number = Some(1466)
    /\ block.block_hash = Some(WrongHash)

(***************************************************************************)
(* Claims on the atomicity of store_block.                                 *)
(***************************************************************************)
\* the three stores after a complete commit of the call in flight
PostCommit ==
    [blockDb |-> task_block_db(sb.pre.blockDb, sb.block, sb.state_diff),
     contractDb |-> task_contract_db(sb.pre.contractDb, sb.block, sb.state_diff),
     classDb |-> task_class_db(sb.pre.classDb, sb.block, sb.classes)]

NoTaskFailed == sb.r1 # "Err" /\ sb.r2 # "Err" /\ sb.r3 # "Err"

\* a class or a contract history entry written by the call is visible in the
\* snapshot while the header of its block is not
EntryWithoutHeader(snap) ==
    LET n == sb.block.block_n.some
    IN  /\ n \notin DOMAIN snap.blockDb.blocks
        /\ \/ \E h \in DOMAIN snap.classDb.classes :
                 /\ snap.classDb.classes[h].declared_at = Some(n)
                 /\ h \notin DOMAIN sb.pre.classDb.classes
           \/ \E k \in DOMAIN snap.contractDb.storage :
                 k[2] = n /\ k \notin DOMAIN sb.pre.contractDb.storage

\* C3: while store_block of a confirmed block runs, a concurrent reader sees
\* the three stores either all as before the commit or all as after it; it
\* never sees a class or a contract history entry of the block without the
\* block's header.
C3_NoTornRead ==
    (reader.seen /\ sb.block.block_n # None /\ NoTaskFailed) =>
        /\ reader.snap \in {sb.pre, PostCommit}
        /\ ~EntryWithoutHeader(reader.snap)

\* C4: if store_block returns an error, none of the three stores has been
\* modified by the call.
C4_ErrorLeavesStoresUntouched ==
    (sb.pc = "idle" /\ sb.result = "Err") => Snapshot = sb.pre

(***************************************************************************)
(* Claims on backup() and the worker thread.                               *)
(***************************************************************************)
NoCancellation == \A c \in Callers : calls[c].pc # "cancelled"

\* C5: two backup() calls issued back-to-back on a backend with backups
\* enabled, the engine never failing: whatever the interleaving, no request is
\* dropped because the channel is full, both calls return Ok, and the second
\* returns only after the first backup has completed.
C5_BackToBackBothAcked ==
    (cfg.backup_dir /\ hist.failed = {} /\ NoCancellation) =>
        /\ \A c \in Callers : calls[c].try_send # "Full"
        /\ \A c \in Callers : calls[c].pc = "done" => calls[c].result = "Ok"
        /\ \A i, j \in 1..Len(hist.order) :
              (i < j /\ calls[hist.order[j]].result = "Ok") =>
                  hist.order[i] \in hist.backed_up

\* C6: backup() returns Ok only after the worker has received that very
\* request and finished creating a backup for it; an acknowledgement is never
\* delivered before the caller's own backup completed, nor for a backup that
\* failed.
C6_AckOnlyAfterOwnBackup ==
    \A c \in Callers :
        (calls[c].cb = "sent" \/ calls[c].result = "Ok") =>
            /\ c \in hist.received
            /\ c \in hist.backed_up
            /\ c \notin hist.failed

\* a backup() call has returned Ok while another call's backup failed
C6_Witness ==
    \E c, d \in Callers :
        calls[c].pc = "done" /\ calls[c].result = "Ok" /\ d \in hist.failed

\* C7: when the engine fails while creating a backup, the backup() call
\* waiting on it returns an error, the worker thread stays alive, and a later
\* backup() call is still received by the worker.
C7_FailedBackupRecoverable ==
    hist.failed # {} =>
        /\ \A c \in hist.failed : calls[c].pc = "done" => calls[c].result = "Err"
        /\ wk.pc # "panicked"
        /\ \A c \in Callers : calls[c].after_failure => calls[c].try_send = "Sent"

\* C8: after a backup() call is cancelled with its request enqueued, the
\* worker still performs that backup and stays in its request loop, and the
\* next backup() request is taken and completes with Ok.
C8_CancelledBackupHarmless ==
    \A c \in Callers :
        (calls[c].pc = "cancelled" /\ calls[c].try_send = "Sent") =>
            /\ c \notin hist.failed
            /\ (c \in hist.received /\ wk.cur # c) => c \in hist.backed_up
            /\ \A d \in Callers :
                  calls[d].after_cancel =>
                      /\ calls[d].try_send = "Sent"
                      /\ calls[d].pc = "done" => calls[d].result = "Ok"

(***************************************************************************)
(* Claims on open and the restore handshake.                               *)
(***************************************************************************)
\* C9: whenever open is called with restore_from_latest_backup set and
\* returns success, the worker completed a restore of the newest backup
\* before the database was opened, for every configuration.
C9_RestoreBeforeOpen ==
    (cfg.restore_from_latest_backup /\ op.pc = "done" /\ op.result = "Ok") =>
        hist.restored_before_open

WorkerFailedBeforeSignal == wk.pc = "panicked" /\ chan.restored_cb # "sent"

\* C10: if the worker thread fails before signalling, open returns an error,
\* the opening thread is not left blocked, and the database is never opened
\* by that call.
C10_WorkerFailureFailsOpen ==
    WorkerFailedBeforeSignal =>
        /\ ~hist.db_opened
        /\ op.pc \in {"await_restore", "done"}
        /\ op.pc = "done" => op.result = "Err"
        /\ op.pc = "await_restore" => chan.restored_cb = "dropped"
        /\ op.pc = "await_restore" => ENABLED OpenAwaitRestore

\* the restore failed in the worker and open has returned an error
C10_Witness ==
    /\ cfg.restore_from_latest_backup
    /\ wk.pc = "panicked"
    /\ ~hist.restored
    /\ op.pc = "done"
    /\ op.result = "Err"

(***************************************************************************)
(* Claims on maybe_flush.                                                  *)
(***************************************************************************)
\* C11: maybe_flush returns Ok(true) if and only if the call flushed all
\* column families; with a previous flush time recorded, the call flushes
\* if and only if force is true or more than 5 seconds have elapsed since
\* that flush (a non-forced call at 5 seconds or less does not flush and
\* returns Ok(false)).
C11_FlushIffForcedOrOverInterval ==
    \A t \in FlushThreads :
        fcall[t].pc = "returned" =>
            /\ (fcall[t].result = "Ok(true)") <=> fcall[t].flushed
            /\ fcall[t].result = "Ok(false)" => ~fcall[t].should_flush
            /\ fcall[t].seen # None =>
                  (fcall[t].should_flush <=>
                      \/ fcall[t].force
                      \/ fcall[t].decided_at - fcall[t].seen.some > FLUSH_INTERVAL_SECS)

\* C12: the last_flush_time mutex is held from the decision through the
\* flush and the timestamp update: at most one flush is in progress at any
\* time, no other thread changes last_flush_time in between, and a
\* non-forced call deciding less than 5 seconds after the recorded flush
\* returns Ok(false).
C12_FlushSerialized ==
    /\ \A t, u \in FlushThreads :
          (fcall[t].pc = "flushing" /\ fcall[u].pc = "flushing") => t = u
    /\ \A t \in FlushThreads :
          fcall[t].pc = "flushing" =>
              /\ flush_mutex = Some(t)
              /\ last_flush_time = fcall[t].seen
    /\ \A t \in FlushThreads :
          (/\ fcall[t].pc = "returned"
           /\ ~fcall[t].force
           /\ fcall[t].seen # None
           /\ fcall[t].decided_at - fcall[t].seen.some < FLUSH_INTERVAL_SECS)
              => fcall[t].result = "Ok(false)"

\* two threads called maybe_flush(false) after the interval had elapsed, one
\* was blocked on the mutex while the other flushed; the first flushed and
\* returned true, the second decided after that flush and returned false
C12_Witness ==
    \E t, u \in FlushThreads :
        /\ t # u
        /\ ~fcall[t].force /\ ~fcall[u].force
        /\ fcall[t].seen # None
        /\ fcall[t].decided_at - fcall[t].seen.some >= FLUSH_INTERVAL_SECS
        /\ fcall[u].blocked
        /\ fcall[t].result = "Ok(true)"
        /\ fcall[u].pc = "returned" /\ fcall[u].result = "Ok(false)"
        /\ fcall[u].seen # None /\ fcall[u].seen.some >= fcall[t].decided_at

(***************************************************************************)
(* Claims on the pending overlay, the nonce map, the history query and     *)
(* the sync tip.                                                           *)
(***************************************************************************)
StoreAddresses == {10, 11, 12}
StoreStorageKeys == {<<10, 1>>, <<10, 2>>, <<11, 1>>}
StoreClassHashes == {100, 101}

LastCall == sb.log[Len(sb.log)]

PendingOverlayEmpty(snap) ==
    /\ snap.blockDb.pending = None
    /\ \A a \in StoreAddresses :
          /\ get_pending(snap.contractDb.pending_class_hashes, a) = None
          /\ get_pending(snap.contractDb.pending_nonces, a) = None
    /\ \A k \in StoreStorageKeys : get_pending(snap.contractDb.pending_storage, k) = None
    /\ \A h \in StoreClassHashes : get_pending(snap.classDb.pending, h) = None

PendingOverlayNonEmpty(snap) ==
    /\ snap.blockDb.pending # None
    /\ snap.contractDb.pending_nonces # EmptyColumn
    /\ snap.contractDb.pending_storage # EmptyColumn
    /\ snap.classDb.pending # EmptyColumn

\* C13: after store_block succeeds for a confirmed block no pending entry
\* of an earlier pending block remains visible in the pending block, the
\* pending contract columns or the pending class columns, and the clearing
\* is atomic with the commit: a concurrent reader sees the stores as before
\* the call or sees an empty overlay.
C13_FinalizationClearsPending ==
    /\ (sb.pc = "idle" /\ sb.result = "Ok" /\ sb.block.block_n # None) =>
           PendingOverlayEmpty(Snapshot)
    /\ (reader.seen /\ sb.block.block_n # None /\ NoTaskFailed) =>
           (reader.snap = sb.pre \/ PendingOverlayEmpty(reader.snap))

\* what a state diff says about an address or a storage key
ExplicitNonces(sd, a) ==
    {sd.nonces[i].nonce : i \in {j \in 1..Len(sd.nonces) : sd.nonces[j].contract_address = a}}

IsDeployed(sd, a) ==
    \E i \in 1..Len(sd.deployed_contracts) : sd.deployed_contracts[i].address = a

ExpectedNonce(sd, a) ==
    IF ExplicitNonces(sd, a) # {} THEN Some(CHOOSE n \in ExplicitNonces(sd, a) : TRUE)
    ELSE IF IsDeployed(sd, a) THEN Some(0)
    ELSE None

ClassHashesSet(sd, a) ==
    {sd.deployed_contracts[i].class_hash :
        i \in {j \in 1..Len(sd.deployed_contracts) : sd.deployed_contracts[j].address = a}}
    \cup {sd.replaced_classes[i].class_hash :
        i \in {j \in 1..Len(sd.replaced_classes) :
                  sd.replaced_classes[j].contract_address = a}}

ExpectedClassHash(sd, a) ==
    IF ClassHashesSet(sd, a) = {} THEN None
    ELSE Some(CHOOSE h \in ClassHashesSet(sd, a) : TRUE)

StorageValuesSet(sd, k) ==
    UNION {{sd.storage_diffs[i].storage_entries[j].value :
               j \in {x \in 1..Len(sd.storage_diffs[i].storage_entries) :
                         sd.storage_diffs[i].storage_entries[x].key = k[2]}} :
           i \in {y \in 1..Len(sd.storage_diffs) : sd.storage_diffs[y].address = k[1]}}

ExpectedStorage(sd, k) ==
    IF StorageValuesSet(sd, k) = {} THEN None
    ELSE Some(CHOOSE v \in StorageValuesSet(sd, k) : TRUE)

DeclaresClass(classes, h) ==
    \E i \in 1..Len(classes) : classes[i].class_infos[1] = h

IsPendingStoreOk(call) ==
    call.op = "store_block" /\ call.result = "Ok" /\ call.block.block_n = None

TwoPendingStores ==
    /\ sb.pc = "idle"
    /\ Len(sb.log) >= 2
    /\ IsPendingStoreOk(sb.log[Len(sb.log) - 1])
    /\ IsPendingStoreOk(LastCall)

\* C14: store_block of a pending block x followed by store_block of a
\* pending block y leaves exactly y's pending block, contract entries and
\* classes readable from the overlay; nothing that only x wrote remains.
C14_PendingStoreReplacesOverlay ==
    TwoPendingStores =>
        LET y == LastCall
        IN  /\ blockDb.pending # None
            /\ blockDb.pending.some.info = y.block.info
            /\ blockDb.pending.some.state_diff = y.state_diff
            /\ \A a \in StoreAddresses :
                  /\ get_pending(contractDb.pending_nonces, a)
                         = ExpectedNonce(y.state_diff, a)
                  /\ get_pending(contractDb.pending_class_hashes, a)
                         = ExpectedClassHash(y.state_diff, a)
            /\ \A k \in StoreStorageKeys :
                  get_pending(contractDb.pending_storage, k)
                      = ExpectedStorage(y.state_diff, k)
            /\ \A h \in StoreClassHashes :
                  (get_pending(classDb.pending, h) # None) <=> DeclaresClass(y.classes, h)

\* x wrote a contract, a storage key and a class that y does not write
C14_Witness ==
    /\ TwoPendingStores
    /\ LET x == sb.log[Len(sb.log) - 1]
           y == LastCall
       IN  /\ x.block.info # y.block.info
           /\ ExpectedNonce(x.state_diff, 12) # None
           /\ ExpectedNonce(y.state_diff, 12) = None
           /\ ExpectedStorage(x.state_diff, <<10, 2>>) # None
           /\ ExpectedStorage(y.state_diff, <<10, 2>>) = None
           /\ DeclaresClass(x.classes, 100) /\ ~DeclaresClass(y.classes, 100)

ClearedOk ==
    /\ sb.pc = "idle"
    /\ sb.log # <<>>
    /\ LastCall.op = "clear_pending_block"
    /\ LastCall.result = "Ok"

\* C15: after clear_pending_block the pending block and every pending
\* contract, storage and class read return None; clearing twice gives the
\* same state as clearing once, and clearing an empty overlay succeeds.
C15_ClearPendingEmptiesOverlay ==
    /\ ClearedOk => PendingOverlayEmpty(Snapshot)
    /\ LET once == clear_pending_block(Snapshot, "none")
           twice == clear_pending_block(once.dbs, "none")
       IN  /\ once.result = "Ok" /\ twice.result = "Ok"
           /\ twice.dbs = once.dbs
           /\ PendingOverlayEmpty(once.dbs)
           /\ PendingOverlayEmpty(Snapshot) => once.dbs = Snapshot

\* clear_pending_block succeeded on an overlay with a pending block, pending
\* contract entries and pending classes
C15_Witness == ClearedOk /\ PendingOverlayNonEmpty(sb.pre)

\* C16: the nonce updates handed to the contract store hold at most one
\* entry per address: the explicit nonce of state_diff.nonces if the address
\* has one, else 0 if the address is deployed, else no entry.
C16_NonceUpdates ==
    sb.pc = "running" =>
        LET nu == nonces_updates_of(sb.state_diff)
        IN  /\ \A i, j \in 1..Len(nu) : nu[i][1] = nu[j][1] => i = j
            /\ \A a \in StoreAddresses :
                  IF ExpectedNonce(sb.state_diff, a) = None
                  THEN \A i \in 1..Len(nu) : nu[i][1] # a
                  ELSE \E i \in 1..Len(nu) :
                          nu[i] = <<a, ExpectedNonce(sb.state_diff, a).some>>
            /\ \A i \in 1..Len(nu) : nu[i][1] \in StoreAddresses
            /\ (sb.r2 = "Ok" /\ sb.block.block_n = None) =>
                  \A a \in StoreAddresses :
                      get_pending(contractDb.pending_nonces, a)
                          = ExpectedNonce(sb.state_diff, a)
            /\ (sb.r2 = "Ok" /\ sb.block.block_n # None) =>
                  \A a \in StoreAddresses :
                      ExpectedNonce(sb.state_diff, a) # None =>
                          history_get(contractDb.nonces, a, sb.block.block_n.some)
                              = ExpectedNonce(sb.state_diff, a)

\* the contract store took the updates of a state diff that deploys an
\* address and also gives it an explicit, non-zero nonce
C16_Witness ==
    /\ sb.pc = "running" /\ sb.r2 = "Ok"
    /\ \E a \in StoreAddresses :
          /\ IsDeployed(sb.state_diff, a)
          /\ ExplicitNonces(sb.state_diff, a) # {}
          /\ 0 \notin ExplicitNonces(sb.state_diff, a)

IsConfirmedStoreOk(call) ==
    call.op = "store_block" /\ call.result = "Ok" /\ call.block.block_n # None

IncreasingConfirmedStores ==
    /\ sb.pc = "idle"
    /\ sb.log # <<>>
    /\ \A i \in 1..Len(sb.log) : IsConfirmedStoreOk(sb.log[i])
    /\ \A i, j \in 1..Len(sb.log) :
          i < j => sb.log[i].block.block_n.some < sb.log[j].block.block_n.some

\* the value the calls of the log wrote under the key at the largest block <= at
ExpectedHistory(k, at) ==
    LET writes == {i \in 1..Len(sb.log) :
                      /\ sb.log[i].block.block_n.some <= at
                      /\ ExpectedStorage(sb.log[i].state_diff, k) # None}
    IN  IF writes = {} THEN None
        ELSE ExpectedStorage(
                 sb.log[CHOOSE i \in writes : \A j \in writes : j <= i].state_diff, k)

\* C17: after successful store_block calls of confirmed blocks with
\* increasing block numbers, the history query of a (contract, key) at block
\* n returns the value written at the largest block <= n, and None if there
\* is no write at a block <= n.
C17_HistoryQuery ==
    IncreasingConfirmedStores =>
        \A k \in StoreStorageKeys : \A at \in 0..(MaxBlockN + 1) :
            history_get(contractDb.storage, k, at) = ExpectedHistory(k, at)

\* a key first written at the second block stored: None below it, the value
\* from it on; another key written by both blocks
C17_Witness ==
    /\ IncreasingConfirmedStores
    /\ Len(sb.log) >= 2
    /\ \E k \in StoreStorageKeys :
          LET n == LastCall.block.block_n.some
          IN  /\ n >= 1
              /\ history_get(contractDb.storage, k, n - 1) = None
              /\ history_get(contractDb.storage, k, n) # None
              /\ history_get(contractDb.storage, k, n + 1)
                     = history_get(contractDb.storage, k, n)
    /\ \E k \in StoreStorageKeys :
          LET n == LastCall.block.block_n.some
          IN  /\ n >= 1
              /\ history_get(contractDb.storage, k, n - 1) # None
              /\ history_get(contractDb.storage, k, n)
                     # history_get(contractDb.storage, k, n - 1)

\* the confirmed blocks for which store_block returned Ok
CommittedBlocks ==
    {sb.log[i].block.block_n.some :
        i \in {j \in 1..Len(sb.log) : IsConfirmedStoreOk(sb.log[j])}}

\* C18: the sync tip is at or above every committed block number; storing an
\* older block after a newer one does not lower it below a committed block,
\* and storing a pending block does not change it.
C18_TipAboveCommitted ==
    /\ \A n \in CommittedBlocks : blockDb.tip # None /\ blockDb.tip.some >= n
    /\ (sb.block.block_n = None /\ sb.pc = "running") => blockDb.tip = sb.pre.blockDb.tip

(***************************************************************************)
(* Claims on the block convert_and_verify_block returns.                   *)
(***************************************************************************)
InMainnetExceptionRange ==
    /\ chain_id = MAIN_CHAIN_ID
    /\ block.block_number.some >= MISMATCH_ALLOWED_FIRST
    /\ block.block_number.some <= MISMATCH_ALLOWED_LAST

\* C19: the block hash stored in the block info of a block returned Ok is
\* the advertised hash, and it equals compute_hash of the header stored next
\* to it, except for mainnet blocks 1466 to 2242 where the advertised hash is
\* stored unchanged even when it differs.
C19_StoredHashIsAdvertised ==
    cvResult.tag = "Ok" =>
        /\ cvResult.block_hash = block.block_hash.some
        /\ ~InMainnetExceptionRange =>
               cvResult.block_hash = compute_hash(cvResult.header, chain_id)

\* a mainnet block of the exception range returned with an advertised hash
\* that is not the hash of its header
C19_Witness ==
    /\ cvResult.tag = "Ok"
    /\ InMainnetExceptionRange
    /\ cvResult.block_hash = WrongHash
    /\ cvResult.block_hash # compute_hash(cvResult.header, chain_id)

BlockFormatErrors ==
    {"BlockFormat: transaction conversion",
     "BlockFormat: No block hash provided",
     "BlockFormat: No block number provided",
     "BlockFormat: No state root provided"}

RequiredFieldMissing ==
    block.block_hash = None \/ block.block_number = None \/ block.state_root = None

StepsRun == {cvSteps[i] : i \in 1..Len(cvSteps)}

PendingFieldsAbsent(b) ==
    b.block_hash = None /\ b.block_number = None /\ b.state_root = None

C21_PendingSkipsVerification ==
    cpResult # NoResult =>
        /\ IsErr(cpResult) <=> ~DecodingSucceeds(block)
        /\ IsErr(cpResult) => cpResult.err # "MismatchedBlockHash"
        /\ \A h \in {None, Some(WrongHash)} :
               convert_pending([block EXCEPT !.block_hash = h], state_diff, chain_id)
                   = cpResult
        /\ ~IsErr(cpResult) =>
               /\ "block_number" \notin DOMAIN cpResult.header
               /\ "block_hash" \notin DOMAIN cpResult.header
               /\ "block_hash" \notin DOMAIN cpResult

C21_Witness ==
    /\ cpResult # NoResult
    /\ ~IsErr(cpResult)
    /\ PendingFieldsAbsent(block)
    /\ Len(block.transactions) > 0

(***************************************************************************)
(* C22: every block body produced by convert_inner, through                *)
(* convert_pending or convert_and_verify_block, has as many receipts as    *)
(* transactions, receipt i being built from transaction i, whatever the    *)
(* lengths of the two input lists.                                         *)
(***************************************************************************)
BodyParallel(inner) ==
    /\ Len(inner.receipts) = Len(inner.transactions)
    /\ \A i \in 1..Len(inner.receipts) :
           inner.receipts[i].of_transaction = inner.transactions[i]

C22_ReceiptsParallelToTransactions ==
    /\ (cvResult # NoResult /\ ~IsErr(cvResult)) => BodyParallel(cvResult.inner)
    /\ (cpResult # NoResult /\ ~IsErr(cpResult)) => BodyParallel(cpResult.inner)

(***************************************************************************)
(* C23: at most one store_block for a given block number is in flight at   *)
(* any time: two calls for the same block number never both have their     *)
(* tasks running, and so never write the three stores interleaved with     *)
(* each other.                                                             *)
(***************************************************************************)
InFlight(w) == inflight[w].pc = "running"

WritesDone(w) ==
    {t \in {"r1", "r2", "r3"} : InFlight(w) /\ inflight[w][t] = "Ok"}

C23_OneStoreBlockInFlight ==
    \A w \in Writers, u \in Writers :
        (w # u /\ InFlight(w) /\ InFlight(u)
              /\ inflight[w].block.block_n = inflight[u].block.block_n)
            => (WritesDone(w) = {} \/ WritesDone(u) = {})

(***************************************************************************)
(* C24: the request channel to the backup worker never holds more than     *)
(* one pending BackupRequest, whatever the number of concurrent backup()   *)
(* callers; the worker has at most one request in the backup engine at a   *)
(* time and receives the requests in the order they were sent.             *)
(***************************************************************************)
CalledBefore(d, c) ==
    \E i, j \in 1..Len(hist.order) :
        i < j /\ hist.order[i] = d /\ hist.order[j] = c

InEngine == {c \in Callers : calls[c].cb = "worker"}

C24_ChannelHoldsAtMostOne ==
    /\ Len(chan.queue) <= BACKUP_CHANNEL_CAPACITY
    /\ Cardinality(InEngine) <= 1
    /\ (wk.pc \in {"backup", "ack"}) => InEngine \subseteq {wk.cur}
    /\ \A c \in hist.received, d \in Callers :
           (calls[d].try_send = "Sent" /\ CalledBefore(d, c)) => d \in hist.received

C24_Witness ==
    /\ wk.pc = "backup"
    /\ Len(chan.queue) = BACKUP_CHANNEL_CAPACITY
    /\ \E c \in Callers : c # wk.cur /\ Head(chan.queue) = c /\ CalledBefore(wk.cur, c)

(***************************************************************************)
(* C25: with the hash function an uninterpreted function of the element    *)
(* sequence, compute_hash hashes exactly: before block 833 on mainnet the  *)
(* 12 elements [block_number, state_root, 0, 0, tx_count, tx_commitment,   *)
(* 0, 0, 0, 0, chain_id, parent_hash] with Pedersen; otherwise, before     *)
(* 0.13.2, the 11 elements [block_number, state_root, sequencer,           *)
(* timestamp, tx_count, tx_commitment, event_count, event_commitment, 0,   *)
(* 0, parent_hash] with Pedersen; from 0.13.2 the 17 elements that start   *)
(* with "STARKNET_BLOCK_HASH0" with Poseidon.  The three headers of the    *)
(* tests (0.13.2 and 0.11.1 on CHAIN_ID, default protocol on SN_MAIN at    *)
(* block 2) are hashed over the sequences of their values.                 *)
(***************************************************************************)
Zero == [u64 |-> 0]
Num(n) == [u64 |-> n]

ExpectedHashOf(h, chain) ==
    IF h.block_number < 833 /\ chain = [bytes |-> "SN_MAIN"]
    THEN [alg |-> "Pedersen",
          elems |-> <<Num(h.block_number), h.global_state_root, Zero, Zero,
                      Num(h.transaction_count), h.transaction_commitment,
                      Zero, Zero, Zero, Zero, chain, h.parent_block_hash>>]
    ELSE IF VersionLt(h.protocol_version, <<0, 13, 2, 0>>)
    THEN [alg |-> "Pedersen",
          elems |-> <<Num(h.block_number), h.global_state_root,
                      h.sequencer_address, Num(h.block_timestamp),
                      Num(h.transaction_count), h.transaction_commitment,
                      Num(h.event_count), h.event_commitment,
                      Zero, Zero, h.parent_block_hash>>]
    ELSE [alg |-> "Poseidon",
          elems |-> <<[bytes |-> "STARKNET_BLOCK_HASH0"],
                      Num(h.block_number), h.global_state_root,
                      h.sequencer_address, Num(h.block_timestamp),
                      concat_counts(U64(h.transaction_count), U64(h.event_count),
                                    U64(h.state_diff_length), h.l1_da_mode),
                      h.state_diff_commitment, h.transaction_commitment,
                      h.event_commitment, h.receipt_commitment,
                      Num(h.l1_gas_price.eth_l1_gas_price),
                      Num(h.l1_gas_price.strk_l1_gas_price),
                      Num(h.l1_gas_price.eth_l1_data_gas_price),
                      Num(h.l1_gas_price.strk_l1_data_gas_price),
                      [bytes |-> VersionToString(h.protocol_version)],
                      Zero, h.parent_block_hash>>]

\* the header of test_header_hash_v0_13_2, on CHAIN_ID
IsTestHeader_v0_13_2 ==
    /\ hdr.chain_id = [bytes |-> "CHAIN_ID"]
    /\ hdr.header.block_number = 2
    /\ hdr.header.protocol_version = <<0, 13, 2, 0>>
    /\ hdr.header.l1_gas_price.eth_l1_gas_price = 14
    /\ hdr.header.l1_da_mode = "Blob"

\* the header of test_header_hash_v0_11_1, on CHAIN_ID
IsTestHeader_v0_11_1 ==
    /\ hdr.chain_id = [bytes |-> "CHAIN_ID"]
    /\ hdr.header.block_number = 2
    /\ hdr.header.protocol_version = <<0, 11, 1, 0>>
    /\ hdr.header.l1_gas_price.eth_l1_gas_price = 0
    /\ hdr.header.l1_da_mode = "Calldata"

\* the header of test_header_hash_pre_v0_7, on SN_MAIN
IsTestHeader_pre_v0_7 ==
    /\ hdr.chain_id = [bytes |-> "SN_MAIN"]
    /\ hdr.header.block_number = 2
    /\ hdr.header.protocol_version = <<0, 0, 0, 0>>
    /\ hdr.header.l1_gas_price.eth_l1_gas_price = 0
    /\ hdr.header.l1_da_mode = "Calldata"

C25_HashedSequences ==
    hdrHash # NoHash =>
        /\ hdrHash = ExpectedHashOf(hdr.header, hdr.chain_id)
        /\ IsTestHeader_v0_13_2 =>
               hdrHash =
                   [alg |-> "Poseidon",
                    elems |-> <<[bytes |-> "STARKNET_BLOCK_HASH0"], Num(2), Num(3),
                                Num(4), Num(5),
                                [be_bytes |->
                                    <<0, 0, 0, 0, 0, 0, 0, 6, 0, 0, 0, 0, 0, 0, 0, 8,
                                      0, 0, 0, 0, 0, 0, 0, 10, 128, 0, 0, 0, 0, 0, 0, 0>>],
                                Num(11), Num(7), Num(9), Num(12),
                                Num(14), Num(15), Num(16), Num(17),
                                [bytes |-> "0.13.2"], Zero, Num(1)>>]
        /\ IsTestHeader_v0_11_1 =>
               hdrHash =
                   [alg |-> "Pedersen",
                    elems |-> <<Num(2), Num(3), Num(4), Num(5), Num(6), Num(7),
                                Num(8), Num(9), Zero, Zero, Num(1)>>]
        /\ IsTestHeader_pre_v0_7 =>
               hdrHash =
                   [alg |-> "Pedersen",
                    elems |-> <<Num(2), Num(3), Zero, Zero, Num(6), Num(7),
                                Zero, Zero, Zero, Zero, [bytes |-> "SN_MAIN"],
                                Num(1)>>]

C25_Witness ==
    /\ hdrHash # NoHash
    /\ IsTestHeader_pre_v0_7
    /\ hdrHash.alg = "Pedersen" /\ Len(hdrHash.elems) = 12

(***************************************************************************)
(* C26: for all u64 values tx_count, event_count, state_diff_length and    *)
(* every DA mode, concat_counts returns the field element whose 32-byte    *)
(* big-endian form is tx_count (8 bytes) || event_count (8 bytes) ||       *)
(* state_diff_length (8 bytes) || flag byte (0x00 Calldata, 0x80 Blob) ||  *)
(* 7 zero bytes; distinct inputs give distinct results; and                *)
(* concat_counts(4, 3, 2, Blob) =                                          *)
(* 0x0000000000000004000000000000000300000000000000028000000000000000.     *)
(***************************************************************************)
\* the 8 big-endian bytes of a u64 given by its limbs
LimbBytes(u) ==
    [i \in 1..8 |-> IF i % 2 = 1 THEN u[(i + 1) \div 2] \div 256
                                 ELSE u[i \div 2] % 256]

PackedBytes(n) ==
    LimbBytes(n.transaction_count) \o LimbBytes(n.event_count)
    \o LimbBytes(n.state_diff_length)
    \o <<IF n.l1_da_mode = "Blob" THEN 128 ELSE 0, 0, 0, 0, 0, 0, 0, 0>>

ConcatCountsOf(n) ==
    concat_counts(n.transaction_count, n.event_count, n.state_diff_length,
                  n.l1_da_mode)

ConcatCountsInjective ==
    \A other \in CountInputs :
        ConcatCountsOf(other) = countsOut.some => other = counts

IsTestCounts ==
    counts = [transaction_count |-> <<0, 0, 0, 4>>, event_count |-> <<0, 0, 0, 3>>,
              state_diff_length |-> <<0, 0, 0, 2>>, l1_da_mode |-> "Blob"]

TestCountsResult ==
    IsTestCounts =>
        countsOut.some.be_bytes =
            <<0, 0, 0, 0, 0, 0, 0, 4, 0, 0, 0, 0, 0, 0, 0, 3,
              0, 0, 0, 0, 0, 0, 0, 2, 128, 0, 0, 0, 0, 0, 0, 0>>

\* the claim as stated, over the whole of u64
C26_ConcatCountsAllU64 ==
    countsOut # None =>
        /\ countsOut.some.be_bytes = PackedBytes(counts)
        /\ ConcatCountsInjective
        /\ TestCountsResult

\* C26, amended: the 32-byte form of the result is the concatenation when
\* tx_count < 2^59, and more generally exactly when the concatenation, read as
\* an integer, is below the field prime; otherwise the result is reduced
\* modulo the prime.  Distinct inputs give distinct results in both cases, and
\* concat_counts(4, 3, 2, Blob) is the value of the test.
C26_ConcatCountsBelowPrime ==
    countsOut # None =>
        /\ counts.transaction_count[1] < 2048 =>
               countsOut.some.be_bytes = PackedBytes(counts)
        /\ countsOut.some.be_bytes = PackedBytes(counts)
               <=> ~GeqBytes(PackedBytes(counts), FELT_PRIME_BYTES, 1)
        /\ ~GeqBytes(countsOut.some.be_bytes, FELT_PRIME_BYTES, 1)
        /\ ConcatCountsInjective
        /\ TestCountsResult

C26_Witness ==
    /\ countsOut # None
    /\ IsTestCounts
    /\ countsOut.some.be_bytes = PackedBytes(counts)

(***************************************************************************)
(* C27: backup() is enabled only by a configured backup_dir.  On a backend *)
(* opened without backup_dir every backup() call returns an error at once: *)
(* no request is sent, no acknowledgement is waited for, and the worker    *)
(* and the backup engine are never touched.                                *)
(***************************************************************************)
C27_BackupNeedsBackupDir ==
    /\ op.backup_handle => cfg.backup_dir
    /\ ~cfg.backup_dir =>
           /\ chan.queue = <<>>
           /\ wk.pc = "unspawned"
           /\ hist.received = {} /\ hist.backed_up = {} /\ hist.failed = {}
           /\ \A c \in Callers :
                  /\ calls[c].pc \in {"idle", "done"}
                  /\ calls[c].cb = "none"
                  /\ calls[c].pc = "done" =>
                         calls[c].result = "Err" /\ calls[c].try_send = "Disabled"

C27_Witness ==
    /\ ~cfg.backup_dir
    /\ op.pc = "done" /\ op.result = "Ok"
    /\ \A c \in Callers : calls[c].pc = "done" /\ calls[c].result = "Err"

(***************************************************************************)
(* C28: the backup worker shuts down on channel close.  Once every sender  *)
(* of the request channel is dropped, the worker processes the requests    *)
(* still queued, its receive returns None and the thread ends without      *)
(* error; the loop never ends while a sender is alive unless a backup      *)
(* failed.                                                                 *)
(***************************************************************************)
InRequestLoop == wk.pc \in {"recv", "backup", "ack"}

ExitedOnClose ==
    wk.pc = "exited" =>
        /\ ~chan.tx_alive
        /\ chan.queue = <<>>
        /\ \A c \in Callers : calls[c].try_send = "Sent" => c \in hist.backed_up

LoopEndsOnlyOnCloseOrFailure ==
    (wk.pc = "panicked" /\ chan.restored_cb = "sent") => hist.failed # {}

C28_WorkerShutsDownOnClose ==
    /\ [](ExitedOnClose /\ LoopEndsOnlyOnCloseOrFailure)
    /\ (InRequestLoop /\ ~chan.tx_alive) ~> (wk.pc = "exited" \/ hist.failed # {})

C28_Witness ==
    /\ wk.pc = "exited"
    /\ op.pc = "dropped"
    /\ hist.backed_up # {}

(***************************************************************************)
(* C29: a pending block is persisted without transaction hashes.  For      *)
(* every pending payload, whatever its number of transactions,             *)
(* convert_pending returns pending block info whose tx-hash list is empty, *)
(* so the lookup of the hash of any transaction of the pending block       *)
(* returns None.                                                           *)
(***************************************************************************)
C29_PendingHasNoTxHashes ==
    (cpResult # NoResult /\ ~IsErr(cpResult)) =>
        /\ cpResult.tx_hashes = <<>>
        /\ \A i \in 1..Len(cpResult.inner.transactions) :
               find_tx_hash_pending(cpResult, cpResult.inner.transactions[i]) = None

C29_Witness ==
    /\ cpResult # NoResult
    /\ ~IsErr(cpResult)
    /\ Len(cpResult.inner.transactions) = MaxTxs
    /\ find_tx_hash_pending(cpResult, cpResult.inner.transactions[1]) = None

(***************************************************************************)
(* C30: the four commitments are computed as parallel tasks, two forks of  *)
(* two, and the header is assembled and hashed only after all four have    *)
(* completed; the result of convert_and_verify_block is the function of    *)
(* its inputs, the same for every order in which the tasks run.            *)
(***************************************************************************)
HeaderWasHashed ==
    \/ par.result.tag = "Ok"
    \/ IsErr(par.result) /\ par.result.err = "MismatchedBlockHash"

C30_CommitmentsJoinedBeforeHeader ==
    par.pc = "done" =>
        /\ par.result = convert_and_verify_block(block, state_diff, chain_id)
        /\ HeaderWasHashed => \A t \in CommitmentTasks : par[t] # None
        /\ (\E t \in CommitmentTasks : par[t] = None) =>
               (IsErr(par.result) /\ \A t \in CommitmentTasks : par[t] = None)

C30_Witness ==
    /\ par.pc = "done"
    /\ par.result.tag = "Ok"
    /\ Len(par.result.inner.transactions) > 0
    /\ par.result.header.receipt_commitment = par.rc.some

(***************************************************************************)
(* C31: the event sequence fed to the event commitment lists, for each     *)
(* receipt in body order, that receipt's events in their order within the  *)
(* receipt, each paired with that receipt's transaction hash; the header's *)
(* event_count is the total number of events over all receipts and its     *)
(* transaction_count is the number of transactions of the body.            *)
(***************************************************************************)
\* the number of events of the receipts before receipt i
RECURSIVE EventsBefore(_, _)
EventsBefore(receipts, i) ==
    IF i <= 1 THEN 0
    ELSE EventsBefore(receipts, i - 1) + Len(receipts[i - 1].events)

\* the events the event commitment of a verified block was computed over
FedEvents == cvResult.header.event_commitment.event_commitment[1]

StoreBlockReturned == sb.pc = "idle" /\ sb.result # "none" /\ sb.error # "none"

JoinedAll ==
    StoreBlockReturned =>
        /\ sb.r1 # "todo" /\ sb.r2 # "todo" /\ sb.r3 # "todo"
        /\ sb.result = "Ok" <=> (sb.r1 = "Ok" /\ sb.r2 = "Ok" /\ sb.r3 = "Ok")
        /\ sb.result # "Ok" =>
               sb.error = IF sb.r1 = "Err" THEN "Err(block_db)"
                          ELSE IF sb.r2 = "Err" THEN "Err(contract_db)"
                          ELSE "Err(class_db)"

\* a task that has returned does not run again in the same call
TaskRunsOnce ==
    (sb.pc = "running" /\ sb'.pc = "running") =>
        /\ sb.r1 # "todo" => (sb'.r1 = sb.r1 /\ blockDb' = blockDb)
        /\ sb.r2 # "todo" => (sb'.r2 = sb.r2 /\ contractDb' = contractDb)
        /\ sb.r3 # "todo" => (sb'.r3 = sb.r3 /\ classDb' = classDb)

C32_StoreBlockJoinsAllThree == [](JoinedAll) /\ [][TaskRunsOnce]_vars

C32_Witness ==
    /\ StoreBlockReturned
    /\ sb.r1 = "Ok" /\ sb.r2 = "Err" /\ sb.r3 = "Err"
    /\ sb.error = "Err(contract_db)"

(***************************************************************************)
(* C33: class-hash verification is not performed.  For every list of class *)
(* updates convert_and_verify_class never returns MismatchedClassHash,     *)
(* whether or not the advertised class_hash is the hash of the class; its  *)
(* only failure is CompilationClassError, returned exactly when some class *)
(* fails to compile (and then no converted class is returned); on success  *)
(* it returns one converted class per input, in input order, keyed by the  *)
(* advertised class_hash, with class_info.block_number = block_n.          *)
(***************************************************************************)
ClassesConverted == classResult # NoResult

SomeClassFailsToCompile ==
    \E i \in 1..Len(db_class_updates) : ~db_class_updates[i].contract_class.compiles

C33_ClassHashNotVerified ==
    ClassesConverted =>
        /\ IsErr(classResult) <=> SomeClassFailsToCompile
        /\ IsErr(classResult) =>
               /\ classResult.err.kind = "CompilationClassError"
               /\ \E i \in 1..Len(db_class_updates) :
                      /\ ~db_class_updates[i].contract_class.compiles
                      /\ classResult.err.of = db_class_updates[i].contract_class.id
               /\ DOMAIN classResult = {"tag", "err"}
        /\ ~IsErr(classResult) =>
               /\ Len(classResult.classes) = Len(db_class_updates)
               /\ \A i \in 1..Len(db_class_updates) :
                      LET c == classResult.classes[i]
                          u == db_class_updates[i]
                      IN  /\ c.class_infos[1] = u.class_hash
                          /\ c.class_compiled[1] = u.class_hash
                          /\ c.class_infos[2].block_number = class_block_n
                          /\ c.class_infos[2].contract_class = u.contract_class
                          /\ c.class_infos[2].compiled_class_hash = u.compiled_class_hash
                          /\ c.class_compiled[2] = compile(u.contract_class)

\* a class advertised under a hash that is not its own is converted and keyed
\* by the advertised hash
C33_Witness ==
    /\ ClassesConverted /\ ~IsErr(classResult)
    /\ Len(db_class_updates) = 2
    /\ db_class_updates[1].class_hash # db_class_updates[1].contract_class.class_hash
    /\ classResult.classes[1].class_infos[1] = db_class_updates[1].class_hash
    /\ class_block_n = Some(7)

(***************************************************************************)
(* C34: store_block routes all three writes by the kind of the block.  For *)
(* a pending block each task that ran wrote only the pending columns of    *)
(* its store: the block, history and class columns are as before the call. *)
(* For a confirmed block each task that ran called the block variant, all  *)
(* with the block number of the block info: every entry written is keyed   *)
(* or annotated with that number and the pending columns are cleared.  No  *)
(* call mixes a pending write in one store with a confirmed write in       *)
(* another.                                                                *)
(***************************************************************************)
ElemsOf(seq) == {seq[i] : i \in 1..Len(seq)}

\* every entry of a history column that the call wrote is keyed at block n
WrittenAt(col, pre, n) ==
    \A k \in DOMAIN col : (k \notin DOMAIN pre \/ col[k] # pre[k]) => k[2] = n

BlockDbPendingWrite ==
    /\ blockDb.blocks = sb.pre.blockDb.blocks
    /\ blockDb.tip = sb.pre.blockDb.tip
    /\ blockDb.pending = Some([info |-> sb.block.info, state_diff |-> sb.state_diff])

ContractDbPendingWrite ==
    /\ contractDb.class_hashes = sb.pre.contractDb.class_hashes
    /\ contractDb.nonces = sb.pre.contractDb.nonces
    /\ contractDb.storage = sb.pre.contractDb.storage
    /\ DOMAIN contractDb.pending_storage =
           {kv[1] : kv \in ElemsOf(StorageKvUpdates(sb.state_diff.storage_diffs, 1))}

ClassDbPendingWrite ==
    /\ classDb.classes = sb.pre.classDb.classes
    /\ DOMAIN classDb.pending = {c.class_infos[1] : c \in ElemsOf(sb.classes)}

BlockDbBlockWrite(n) ==
    /\ blockDb.pending = None
    /\ blockDb.tip = Some(n)
    /\ n \in DOMAIN blockDb.blocks
    /\ \A m \in DOMAIN blockDb.blocks :
           m # n => /\ m \in DOMAIN sb.pre.blockDb.blocks
                    /\ blockDb.blocks[m] = sb.pre.blockDb.blocks[m]

ContractDbBlockWrite(n) ==
    /\ contractDb.pending_class_hashes = EmptyColumn
    /\ contractDb.pending_nonces = EmptyColumn
    /\ contractDb.pending_storage = EmptyColumn
    /\ WrittenAt(contractDb.class_hashes, sb.pre.contractDb.class_hashes, n)
    /\ WrittenAt(contractDb.nonces, sb.pre.contractDb.nonces, n)
    /\ WrittenAt(contractDb.storage, sb.pre.contractDb.storage, n)
    /\ \A kv \in ElemsOf(StorageKvUpdates(sb.state_diff.storage_diffs, 1)) :
           <<kv[1], n>> \in DOMAIN contractDb.storage

ClassDbBlockWrite(n) ==
    /\ classDb.pending = EmptyColumn
    /\ \A c \in ElemsOf(sb.classes) :
           /\ c.class_infos[1] \in DOMAIN classDb.classes
           /\ classDb.classes[c.class_infos[1]].declared_at = Some(n)
    /\ \A h \in DOMAIN classDb.classes :
           h \notin {c.class_infos[1] : c \in ElemsOf(sb.classes)} =>
               /\ h \in DOMAIN sb.pre.classDb.classes
               /\ classDb.classes[h] = sb.pre.classDb.classes[h]

C34_RoutedByBlockKind ==
    IF sb.block.block_n = None
    THEN /\ sb.r1 = "Ok" => BlockDbPendingWrite
         /\ sb.r2 = "Ok" => ContractDbPendingWrite
         /\ sb.r3 = "Ok" => ClassDbPendingWrite
    ELSE /\ sb.r1 = "Ok" => BlockDbBlockWrite(sb.block.block_n.some)
         /\ sb.r2 = "Ok" => ContractDbBlockWrite(sb.block.block_n.some)
         /\ sb.r3 = "Ok" => ClassDbBlockWrite(sb.block.block_n.some)

\* a confirmed block stored over a pending one, and a pending block stored
\* over confirmed ones, each with a state diff and a class
C34_Witness ==
    /\ sb.r1 = "Ok" /\ sb.r2 = "Ok" /\ sb.r3 = "Ok"
    /\ sb.state_diff # EmptyStateDiff /\ sb.classes # <<>>
    /\ \/ /\ sb.block.block_n = Some(1)
          /\ sb.pre.blockDb.pending # None
          /\ sb.pre.contractDb.pending_storage # EmptyColumn
       \/ /\ sb.block.block_n = None
          /\ sb.pre.blockDb.tip # None
          /\ sb.pre.contractDb.storage # EmptyColumn

(***************************************************************************)
(* C35: every backup() call eventually returns, with Ok or with an error,  *)
(* in every interleaving with the other callers and the worker thread (the *)
(* worker and the awaiting callers being scheduled): a caller never waits  *)
(* forever, also when the channel was full, the worker has died or the     *)
(* request was not enqueued.                                               *)
(***************************************************************************)
C35_BackupEventuallyReturns ==
    \A c \in Callers :
        (calls[c].pc = "awaiting") ~> (calls[c].pc \in {"done", "cancelled"})

(***************************************************************************)
(* C36: a maybe_flush call that finds no recorded flush time decides to    *)
(* flush whatever force is, and returns Ok(true) once its flush is done    *)
(* (never Ok(false)); every successful flush sets last_flush_time to the   *)
(* clock at the moment the flush finished; and a call that does not flush  *)
(* leaves last_flush_time unchanged.                                       *)
(***************************************************************************)
FirstFlushDecided ==
    \A t \in FlushThreads :
        (fcall[t].pc \in {"flushing", "returned"} /\ fcall[t].seen = None) =>
            /\ fcall[t].should_flush
            /\ fcall[t].result # "Ok(false)"
            /\ (fcall[t].pc = "returned" /\ fcall[t].flushed) =>
                   fcall[t].result = "Ok(true)"

\* a step changes last_flush_time only when it ends a successful flush, and the
\* step that ends a successful flush records the clock of that moment
FlushStampsItsEnd ==
    IF fcall' = fcall THEN last_flush_time' = last_flush_time
    ELSE LET t == CHOOSE u \in FlushThreads : fcall'[u] # fcall[u]
         IN  IF fcall[t].pc = "flushing" /\ fcall'[t].flushed
             THEN last_flush_time' = Some(now')
             ELSE last_flush_time' = last_flush_time

C36_FirstFlushAndTimestamp == [](FirstFlushDecided) /\ [][FlushStampsItsEnd]_vars

\* a non-forced first call flushed while the clock advanced: it returned true
\* and the recorded time is the end of the flush, later than the decision
C36_Witness ==
    \E t \in FlushThreads :
        /\ fcall[t].pc = "returned" /\ ~fcall[t].force
        /\ fcall[t].seen = None
        /\ fcall[t].result = "Ok(true)"
        /\ last_flush_time = Some(now)
        /\ now > fcall[t].decided_at

(***************************************************************************)
(* C37: when the flush of the column families fails inside maybe_flush,    *)
(* the call returns the error, last_flush_time keeps the value the call    *)
(* found, and the mutex is released, so later calls are not blocked: the   *)
(* next call decides on the old timestamp, and a non-forced call following *)
(* a failed non-forced one flushes again.                                  *)
(***************************************************************************)
FlushFails(t) ==
    /\ fcall[t].pc = "flushing"
    /\ fcall'[t].pc = "returned" /\ ~fcall'[t].flushed

\* a non-forced call sits on the lock after a non-forced call failed to flush
\* and nothing was recorded since
RetryIsDue(u) ==
    /\ fcall[u].pc = "lock" /\ ~fcall[u].force
    /\ fcall'[u].pc # "lock"
    /\ \E t \in FlushThreads :
           /\ fcall[t].pc = "returned" /\ fcall[t].result = "Err"
           /\ ~fcall[t].force
           /\ fcall[t].seen = last_flush_time

FailedFlushStep ==
    /\ \A t \in FlushThreads :
           FlushFails(t) =>
               /\ fcall'[t].result = "Err"
               /\ last_flush_time' = last_flush_time
               /\ last_flush_time' = fcall[t].seen
               /\ flush_mutex' = None
    /\ \A u \in FlushThreads :
           RetryIsDue(u) =>
               /\ fcall'[u].pc = "flushing"
               /\ fcall'[u].seen = last_flush_time

MutexHeldOnlyWhileFlushing ==
    \A t \in FlushThreads :
        /\ flush_mutex = Some(t) => fcall[t].pc = "flushing"
        /\ fcall[t].result = "Err" => (fcall[t].should_flush /\ ~fcall[t].flushed)

C37_FailedFlushKeepsTimestamp ==
    [](MutexHeldOnlyWhileFlushing) /\ [][FailedFlushStep]_vars

\* a non-forced flush failed while another non-forced call waited on the
\* mutex; that call then got the lock, found the old timestamp and flushed
C37_Witness ==
    \E t, u \in FlushThreads :
        /\ t # u
        /\ fcall[t].pc = "returned" /\ fcall[t].result = "Err" /\ ~fcall[t].force
        /\ fcall[t].seen # None
        /\ fcall[u].blocked /\ ~fcall[u].force
        /\ fcall[u].seen = fcall[t].seen
        /\ fcall[u].pc = "returned" /\ fcall[u].result = "Ok(true)"

(***************************************************************************)
(* C38: each hashing regime depends only on its own fields.  Two headers   *)
(* on mainnet below block 833 that agree on block_number, state root,      *)
(* transaction count, transaction commitment and parent hash get the same  *)
(* pre-v0.7 hash whatever their sequencer, timestamp, event count and      *)
(* commitment, gas prices, DA mode and protocol version; two headers that  *)
(* select the Pedersen 11-element regime and agree on its 9 header fields  *)
(* get the same hash whatever the chain id, gas prices, DA mode,           *)
(* state-diff length and commitment, receipt commitment and protocol       *)
(* version.                                                                *)
(***************************************************************************)
OtherGasPrices ==
    [eth_l1_gas_price |-> 24, strk_l1_gas_price |-> 25,
     eth_l1_data_gas_price |-> 26, strk_l1_data_gas_price |-> 27]

OtherVersions == {StarknetVersionDefault, ParseVersion("0.11.1"), ParseVersion("0.13.2")}

\* the headers that differ from h in any of the fields outside the pre-v0.7
\* regime, or in the transaction count
PreV07Variants(h) ==
    {[h EXCEPT !.sequencer_address = sq, !.block_timestamp = ts,
               !.event_count = ec, !.event_commitment = em,
               !.l1_gas_price = gp, !.l1_da_mode = da, !.protocol_version = pv,
               !.transaction_count = tc] :
        sq \in {h.sequencer_address, FeltU64(40)}, ts \in {h.block_timestamp, 50},
        ec \in {h.event_count, 80}, em \in {h.event_commitment, FeltU64(90)},
        gp \in {h.l1_gas_price, OtherGasPrices}, da \in {"Calldata", "Blob"},
        pv \in OtherVersions, tc \in {h.transaction_count, 60}}

\* the headers that differ from h in any of the fields outside the Pedersen
\* 11-element regime, or in the sequencer address
Pedersen11Variants(h) ==
    {[h EXCEPT !.l1_gas_price = gp, !.l1_da_mode = da,
               !.state_diff_length = sl, !.state_diff_commitment = sc,
               !.receipt_commitment = rc, !.protocol_version = pv,
               !.sequencer_address = sq] :
        gp \in {h.l1_gas_price, OtherGasPrices}, da \in {"Calldata", "Blob"},
        sl \in {h.state_diff_length, 100}, sc \in {h.state_diff_commitment, FeltU64(110)},
        rc \in {h.receipt_commitment, FeltU64(120)}, pv \in OtherVersions,
        sq \in {h.sequencer_address, FeltU64(40)}}

AgreeOnPreV07Fields(h1, h2) ==
    /\ h1.block_number = h2.block_number
    /\ h1.global_state_root = h2.global_state_root
    /\ h1.transaction_count = h2.transaction_count
    /\ h1.transaction_commitment = h2.transaction_commitment
    /\ h1.parent_block_hash = h2.parent_block_hash

AgreeOnPedersen11Fields(h1, h2) ==
    /\ AgreeOnPreV07Fields(h1, h2)
    /\ h1.sequencer_address = h2.sequencer_address
    /\ h1.block_timestamp = h2.block_timestamp
    /\ h1.event_count = h2.event_count
    /\ h1.event_commitment = h2.event_commitment

HeaderChainIds == {FeltBytes("CHAIN_ID"), MAIN_CHAIN_ID}

C38_RegimeDependsOnItsFields ==
    hdrHash # NoHash =>
        /\ (hdr.header.block_number < V0_7_BLOCK_NUMBER /\ hdr.chain_id = MAIN_CHAIN_ID) =>
               \A h2 \in PreV07Variants(hdr.header) :
                   AgreeOnPreV07Fields(hdr.header, h2) =>
                       compute_hash(h2, MAIN_CHAIN_ID) = hdrHash
        /\ Regime(hdrHash) = "pedersen_11" =>
               \A h2 \in Pedersen11Variants(hdr.header), c2 \in HeaderChainIds :
                   (/\ AgreeOnPedersen11Fields(hdr.header, h2)
                    /\ Regime(compute_hash(h2, c2)) = "pedersen_11") =>
                       compute_hash(h2, c2) = hdrHash

\* a header hashed in the Pedersen 11-element regime, and another one on a
\* different chain with other gas prices, DA mode, state-diff fields, receipt
\* commitment and protocol version that gets the same hash
C38_Witness ==
    /\ Regime(hdrHash) = "pedersen_11"
    /\ \E h2 \in Pedersen11Variants(hdr.header), c2 \in HeaderChainIds :
           /\ c2 # hdr.chain_id
           /\ h2.l1_gas_price # hdr.header.l1_gas_price
           /\ h2.l1_da_mode # hdr.header.l1_da_mode
           /\ h2.state_diff_length # hdr.header.state_diff_length
           /\ h2.state_diff_commitment # hdr.header.state_diff_commitment
           /\ h2.receipt_commitment # hdr.header.receipt_commitment
           /\ h2.protocol_version # hdr.header.protocol_version
           /\ compute_hash(h2, c2) = hdrHash

(***************************************************************************)
(* Claims on the fee estimate.                                             *)
(***************************************************************************)
Capped(x) == IF x > MaxU128 THEN MaxU128 ELSE IF x < 0 THEN 0 ELSE x

Larger(a, b) == IF a >= b THEN a ELSE b

Estimate == fee_estimate.some
Execution == executions_result.some
MinimalL1Gas ==
    IF Execution.minimal_l1_gas = None THEN 0 ELSE Execution.minimal_l1_gas.some.l1_gas
MinimalL1DataGas ==
    IF Execution.minimal_l1_gas = None THEN 0
    ELSE Execution.minimal_l1_gas.some.l1_data_gas

\* the parts of the estimate that do not depend on how the gas is derived
EstimateWellFormed ==
    /\ Estimate.gas_price =
           (IF Execution.fee_type = "Eth" THEN block_gas_prices.some.eth_l1_gas_price
            ELSE block_gas_prices.some.strk_l1_gas_price)
    /\ Estimate.data_gas_price =
           (IF Execution.fee_type = "Eth"
            THEN block_gas_prices.some.eth_l1_data_gas_price
            ELSE block_gas_prices.some.strk_l1_data_gas_price)
    /\ Estimate.data_gas_consumed =
           Larger(Execution.execution_info.da_gas.l1_data_gas, MinimalL1DataGas)
    /\ Estimate.overall_fee =
           Capped(Capped(Estimate.gas_consumed * Estimate.gas_price)
                  + Capped(Estimate.data_gas_consumed * Estimate.data_gas_price))
    /\ \A f \in {"gas_consumed", "gas_price", "data_gas_consumed", "data_gas_price",
                 "overall_fee"} : Estimate[f] \in 0..MaxU128
    /\ Larger(Estimate.gas_price, 1) > 0

\* C39, as stated: for every execution result the estimate has
\* gas_consumed = max((actual_fee saturating-minus data_gas_consumed *
\* data_gas_price) / max(gas_price, 1), minimal l1_gas), data_gas_consumed =
\* max(da l1_data_gas, minimal l1_data_gas) and overall_fee = gas_consumed *
\* gas_price + data_gas_consumed * data_gas_price in saturating u128
\* arithmetic, every name being a field of the returned estimate.
C39_FeeEstimateFormula ==
    fee_estimate # None =>
        /\ EstimateWellFormed
        /\ Estimate.gas_consumed =
               Larger(Capped(Execution.execution_info.actual_fee
                             - Capped(Estimate.data_gas_consumed
                                      * Estimate.data_gas_price))
                          \div Larger(Estimate.gas_price, 1),
                      MinimalL1Gas)

\* C39, amended: the data gas fee subtracted from actual_fee is computed from
\* the execution's l1_data_gas, before the minimal data gas is applied; the
\* rest is as stated, in saturating arithmetic that never leaves the u128 range
\* and never divides by zero.
C39_FeeEstimateFormulaDaGas ==
    fee_estimate # None =>
        /\ EstimateWellFormed
        /\ Estimate.gas_consumed =
               Larger(Capped(Execution.execution_info.actual_fee
                             - Capped(Execution.execution_info.da_gas.l1_data_gas
                                      * Estimate.data_gas_price))
                          \div Larger(Estimate.gas_price, 1),
                      MinimalL1Gas)

\* an estimate whose data gas was raised to the minimum, whose gas came out of
\* the fee left after the data gas fee, and whose overall fee saturated
C39_Witness ==
    /\ fee_estimate # None
    /\ MinimalL1DataGas > Execution.execution_info.da_gas.l1_data_gas
    /\ Execution.execution_info.da_gas.l1_data_gas > 0
    /\ Estimate.gas_consumed > MinimalL1Gas
    /\ Estimate.gas_consumed * Estimate.gas_price
           + Estimate.data_gas_consumed * Estimate.data_gas_price > MaxU128
    /\ Estimate.overall_fee = MaxU128

====
